---- MODULE Spec2Model ----
(***************************************************************************)
(* A model of the gql.rs syntax crate: the Lexer (an iterator of located   *)
(* tokens over a UTF-8 string), the recursive-descent parser AST::parse,   *)
(* the extension validator, and the server around them: the connection    *)
(* handlers that forward request texts to the database actor.              *)
(*                                                                         *)
(* A text is a sequence of characters; a character is a one-element        *)
(* string.  "U+00E9" stands for the two-byte alphanumeric character e-acute*)
(* and "U+2192" for the three-byte non-alphanumeric rightwards arrow.      *)
(* Positions are kept as the code keeps them: `input` counts the items the *)
(* CharIndices iterator has handed out, the indices it yields are byte     *)
(* offsets, and `position`/`col` are whatever the code adds to them.       *)
(***************************************************************************)
EXTENDS Integers, Sequences, FiniteSets, TLC

VARIABLES
    raw,        \* Lexer.raw: the text of the current call
    lexer,      \* the Lexer fields: input, initialized, ended, position, line, col
    peeked,     \* AST.lexer: the Peekable cache in front of the Lexer
    aborted,    \* TRUE once the call has panicked (the process is gone)
    yielded,    \* the items Lexer::next has returned so far
    started,    \* for each of them, the character index its token starts at
    pc,         \* where the caller stands
    result,     \* the Result of the current parse call
    calls,      \* the finished parse calls, [text, result], in call order
    extension,  \* validator: the ObjectTypeExtensionNode under validation
    original,   \* validator: Option<&ObjectTypeDefinitionNode>
    verdict,    \* validator: the ValidationResult
    connections,\* server: for each connection, where its handler stands
    command,    \* server: the mpsc channel to the database actor
    tasks,      \* server: the tasks the database actor has spawned
    socket,     \* server: the peer's side of a connection read byte by byte
    buffer      \* server: Connection.buffer of that connection

vars == <<raw, lexer, peeked, aborted, yielded, started, pc, result, calls,
          extension, original, verdict, connections, command, tasks, socket, buffer>>

netvars == <<connections, command, tasks, socket, buffer>>

\* a connection whose bytes are not looked at
NoSocket == [pending |-> <<>>, stream |-> <<>>, closed |-> FALSE]

\* no server around the call
NoNet == connections = <<>> /\ command = <<>> /\ tasks = {} /\ socket = NoSocket /\ buffer = <<>>

-----------------------------------------------------------------------------
(* Characters *)

Lower == {"a","b","c","d","e","f","g","h","i","j","k","l","m",
          "n","o","p","q","r","s","t","u","v","w","x","y","z"}
Upper == {"A","B","C","D","E","F","G","H","I","J","K","L","M",
          "N","O","P","Q","R","S","T","U","V","W","X","Y","Z"}
Digits == {"0","1","2","3","4","5","6","7","8","9"}

DigitValue(c) ==
    CASE c = "0" -> 0 [] c = "1" -> 1 [] c = "2" -> 2 [] c = "3" -> 3
      [] c = "4" -> 4 [] c = "5" -> 5 [] c = "6" -> 6 [] c = "7" -> 7
      [] c = "8" -> 8 [] c = "9" -> 9

\* char::len_utf8
len_utf8(c) == CASE c = "U+00E9" -> 2 [] c = "U+2192" -> 3 [] OTHER -> 1

\* char::is_alphanumeric (Unicode aware)
is_alphanumeric(c) == c \in Lower \cup Upper \cup Digits \cup {"U+00E9"}

Min(S) == CHOOSE x \in S : \A y \in S : x <= y

\* byte offset of the k-th character (k counted from 0) of str
RECURSIVE ByteIndex(_, _)
ByteIndex(str, k) ==
    IF k = 0 THEN 0 ELSE ByteIndex(str, k - 1) + len_utf8(str[k])

ByteLen(str) == ByteIndex(str, Len(str))

\* is byte offset b a character boundary of str (str::is_char_boundary)
is_char_boundary(str, b) == \E k \in 0..Len(str) : ByteIndex(str, k) = b

\* the character index whose byte offset is b
CharIndex(str, b) == CHOOSE k \in 0..Len(str) : ByteIndex(str, k) = b

\* str::get(a..b) for byte offsets: <<substring>> or <<>> (None)
get(str, a, b) ==
    IF a <= b /\ is_char_boundary(str, a) /\ is_char_boundary(str, b)
    THEN <<SubSeq(str, CharIndex(str, a) + 1, CharIndex(str, b))>>
    ELSE <<>>

\* str::lines().count(): a final line ending is not followed by an empty line
LinesCount(str) ==
    Cardinality({i \in 1..Len(str) : str[i] = "\n"})
      + (IF Len(str) > 0 /\ str[Len(str)] # "\n" THEN 1 ELSE 0)

-----------------------------------------------------------------------------
(* The regular expressions of the lexer.  Regex::is_match_at and           *)
(* captures_read_at search from the given offset onwards: they are not     *)
(* anchored at it.  Matches are computed on character indices (p counted   *)
(* from 0) and handed back as byte offsets.                                *)

At(str, p) == IF p >= 0 /\ p < Len(str) THEN str[p + 1] ELSE "EOF"

\* SPREAD = "...": any three characters other than a line feed
SpreadAt(str, p) ==
    /\ p + 2 < Len(str)
    /\ \A d \in 0..2 : At(str, p + d) # "\n"

SPREAD_is_match_at(str, p0) == \E p \in p0..Len(str) : SpreadAt(str, p)

\* end of the longest run of digits that starts at p
RECURSIVE DigitsEnd(_, _)
DigitsEnd(str, p) ==
    IF At(str, p) \in Digits THEN DigitsEnd(str, p + 1) ELSE p

\* INT = -?[0-9]+ matched at p: the end of the match, or -1
IntEndAt(str, p) ==
    LET q == IF At(str, p) = "-" THEN p + 1 ELSE p
        e == DigitsEnd(str, q)
    IN  IF e > q THEN e ELSE -1

\* FLOAT = -?[0-9]+\.[0-9]+ matched at p: the end of the match, or -1
FloatEndAt(str, p) ==
    LET q == IF At(str, p) = "-" THEN p + 1 ELSE p
        e == DigitsEnd(str, q)
        f == DigitsEnd(str, e + 1)
    IN  IF e > q /\ At(str, e) = "." /\ f > e + 1 THEN f ELSE -1

\* the body (?:\\.|[^"\\])* scanned from p: where it stops
RECURSIVE BodyEnd(_, _)
BodyEnd(str, p) ==
    LET c == At(str, p)
    IN  IF c = "EOF" \/ c = "\"" THEN p
        ELSE IF c = "\\"
             THEN IF At(str, p + 1) \notin {"EOF", "\n"}
                  THEN BodyEnd(str, p + 2) ELSE p
             ELSE BodyEnd(str, p + 1)

TripleQuoteAt(str, p) == \A d \in 0..2 : At(str, p + d) = "\""

\* BLOCK_START = """
BLOCK_START_is_match_at(str, p0) == \E p \in p0..Len(str) : TripleQuoteAt(str, p)

\* BLOCK = """((?:\\.|[^"\\])*)""" matched at p: the end of the match, or -1
BlockEndAt(str, p) ==
    LET e == BodyEnd(str, p + 3)
    IN  IF TripleQuoteAt(str, p) /\ TripleQuoteAt(str, e) THEN e + 3 ELSE -1

\* SINGLE = "((?:\\.|[^"\\])*)" matched at p: the end of the match, or -1
SingleEndAt(str, p) ==
    LET e == BodyEnd(str, p + 1)
    IN  IF At(str, p) = "\"" /\ At(str, e) = "\"" THEN e + 1 ELSE -1

\* leftmost match of a pattern (FLOAT, INT, BLOCK or SINGLE) from p0 on:
\* <<start, end>> in characters, or <<>>
Leftmost(str, p0, pattern) ==
    LET EndAt(p) == CASE pattern = "FLOAT" -> FloatEndAt(str, p)
                      [] pattern = "INT" -> IntEndAt(str, p)
                      [] pattern = "BLOCK" -> BlockEndAt(str, p)
                      [] pattern = "SINGLE" -> SingleEndAt(str, p)
        starts == {p \in p0..Len(str) : EndAt(p) # -1}
    IN  IF starts = {} THEN <<>>
        ELSE LET p == Min(starts) IN <<p, EndAt(p)>>

-----------------------------------------------------------------------------
(* Tokens and lexer items *)

Location(pos, line, column) ==
    [absolute_position |-> pos, line |-> line, column |-> column]

IGNORED_LOCATION == Location(0, 0, 0)

\* an item of the Lexer iterator: Some(Ok(token)), Some(Err(LexError)), None,
\* or "Panic" when the call unwinds instead of returning
Ok(kind, loc, value) == [tag |-> "Ok", kind |-> kind, loc |-> loc, value |-> value]
LexErr(kind, loc, value) == [tag |-> "Err", kind |-> kind, loc |-> loc, value |-> value]
None == [tag |-> "None", kind |-> "None", loc |-> IGNORED_LOCATION, value |-> <<>>]
Panic == [tag |-> "Panic", kind |-> "Panic", loc |-> IGNORED_LOCATION, value |-> <<>>]
TokStart == Ok("Start", IGNORED_LOCATION, <<>>)
TokEnd == Ok("End", IGNORED_LOCATION, <<>>)

\* the one-character tokens of get_next_token
PunctKind(c) ==
    CASE c = "!" -> "Bang" [] c = "$" -> "Dollar" [] c = "&" -> "Amp"
      [] c = "|" -> "Pipe" [] c = "@" -> "At" [] c = ":" -> "Colon"
      [] c = "=" -> "Equals" [] c = "{" -> "OpenBrace" [] c = "}" -> "CloseBrace"
      [] c = "(" -> "OpenParen" [] c = ")" -> "CloseParen"
      [] c = "[" -> "OpenSquare" [] c = "]" -> "CloseSquare"

Punctuation == {"!", "$", "&", "|", "@", ":", "=", "{", "}", "(", ")", "[", "]"}

\* str::parse::<i64> of a match of INT: <<value>>, or <<>> (Err) for a literal
\* too long for an i64; every literal of up to 18 digits fits
RECURSIVE DigitsValue(_)
DigitsValue(ds) ==
    IF ds = <<>> THEN 0
    ELSE 10 * DigitsValue(SubSeq(ds, 1, Len(ds) - 1)) + DigitValue(ds[Len(ds)])

parse_i64(sub) ==
    LET neg == sub[1] = "-"
        ds == IF neg THEN Tail(sub) ELSE sub
    IN  IF Len(ds) > 18 THEN <<>>
        ELSE <<IF neg THEN 0 - DigitsValue(ds) ELSE DigitsValue(ds)>>

\* str::parse::<f64> of a match of FLOAT: sign, whole part and fraction digits
parse_f64(sub) ==
    LET neg == sub[1] = "-"
        ds == IF neg THEN Tail(sub) ELSE sub
        dot == CHOOSE i \in 1..Len(ds) : ds[i] = "."
    IN  <<neg, DigitsValue(SubSeq(ds, 1, dot - 1)), SubSeq(ds, dot + 1, Len(ds))>>

-----------------------------------------------------------------------------
(* Lexer *)

Lexer_new ==
    [input |-> 0, initialized |-> FALSE, ended |-> FALSE,
     position |-> 0, line |-> 1, col |-> 1]

\* self.input.peek(): <<byte index, char>> or <<>>
input_peek(lx) ==
    IF lx.input < Len(raw)
    THEN <<ByteIndex(raw, lx.input), raw[lx.input + 1]>> ELSE <<>>

\* self.input.position(|(i, _)| i == b): the items up to and including the first
\* one whose byte index is b are consumed; everything is consumed if there is none.
\* pos = -1 stands for None.
input_position(lx, b) ==
    LET hits == {j \in lx.input..(Len(raw) - 1) : ByteIndex(raw, j) = b}
    IN  IF hits = {} THEN [input |-> Len(raw), pos |-> -1]
        ELSE [input |-> Min(hits) + 1, pos |-> Min(hits) - lx.input]

\* self.input.find(|(_, c)| *c == '\n'): byte index of the line feed, or -1
input_find_newline(lx) ==
    LET hits == {j \in lx.input..(Len(raw) - 1) : raw[j + 1] = "\n"}
    IN  IF hits = {} THEN [input |-> Len(raw), index |-> -1]
        ELSE [input |-> Min(hits) + 1, index |-> ByteIndex(raw, Min(hits))]

get_current_location(lx) == Location(lx.position, lx.line, lx.col)

advance(lx) ==
    [lx EXCEPT !.input = IF lx.input < Len(raw) THEN lx.input + 1 ELSE lx.input,
               !.position = lx.position + 1,
               !.col = lx.col + 1]

advance_n(lx, n) ==
    LET lx1 == [lx EXCEPT !.position = lx.position + n, !.col = lx.col + n]
    IN  [lx1 EXCEPT !.input = input_position(lx, lx1.position - 1).input]

advance_to(lx, pos) ==
    [lx EXCEPT !.position = pos, !.col = pos,
               !.input = input_position(lx, pos - 1).input]

Step(lx, item) == [lexer |-> lx, item |-> item]

make_unexpected_character_error(lx) ==
    Step([lx EXCEPT !.ended = TRUE],
         LexErr("UnexpectedCharacter", get_current_location(lx), <<>>))

make_conversion_error(lx, expected_type) ==
    Step([lx EXCEPT !.ended = TRUE],
         LexErr("UnableToConvert", get_current_location(lx), expected_type))

make_unknown_character_error(lx) ==
    Step([lx EXCEPT !.ended = TRUE],
         LexErr("UnknownCharacter", get_current_location(lx), <<>>))

\* variant of make_unmatched_quote_error: the Lexer is not marked as ended
make_unmatched_quote_error_open(lx) ==
    Step(lx, LexErr("UnmatchedQuote", Location(lx.position, lx.line, lx.col + 1), <<>>))

make_unmatched_quote_error(lx) ==
    Step([lx EXCEPT !.ended = TRUE],
         LexErr("UnmatchedQuote", Location(lx.position, lx.line, lx.col + 1), <<>>))

\* lex_bang, lex_dollar, ... lex_colon
lex_punctuation(lx, c) ==
    Step(advance(lx), Ok(PunctKind(c), get_current_location(lx), <<>>))

lex_ellipsis(lx, index) ==
    IF SPREAD_is_match_at(raw, CharIndex(raw, index))
    THEN Step(advance_n(lx, 3), Ok("Spread", Location(lx.position, lx.line, lx.col), <<>>))
    ELSE make_unexpected_character_error(lx)

lex_name(lx, init_pos) ==
    LET stop == {j \in lx.input..Len(raw) :
                    j = Len(raw) \/ ~(is_alphanumeric(raw[j + 1]) \/ raw[j + 1] = "_")}
        end_pos == Min(stop) - lx.input
        lx1 == [lx EXCEPT !.input = Min(stop),
                          !.position = lx.position + end_pos,
                          !.col = lx.col + end_pos]
        name == get(raw, init_pos, init_pos + end_pos)
    IN  IF name = <<>> THEN Step(lx1, Panic)     \* .unwrap() of None
        ELSE Step(lx1, Ok("Name", Location(init_pos, lx.line, lx.col), name[1]))

lex_number(lx, init_pos) ==
    LET p0 == CharIndex(raw, init_pos)
        fm == Leftmost(raw, p0, "FLOAT")
        im == Leftmost(raw, p0, "INT")
    IN  IF fm # <<>>
        THEN LET end == ByteIndex(raw, fm[2])
                 f == parse_f64(SubSeq(raw, fm[1] + 1, fm[2]))
             IN  Step(advance_to(lx, end),
                      Ok("Float", Location(init_pos, lx.line, lx.col), f))
        ELSE IF im # <<>>
        THEN LET end == ByteIndex(raw, im[2])
                 i == parse_i64(SubSeq(raw, im[1] + 1, im[2]))
             IN  IF i = <<>> THEN make_conversion_error(lx, "Int")
                 ELSE Step(advance_to(lx, end),
                           Ok("Int", get_current_location(lx), i))
        ELSE make_conversion_error(lx, "Int or Float")

lex_string(lx, init_pos) ==
    LET p0 == CharIndex(raw, init_pos)
    IN  IF BLOCK_START_is_match_at(raw, p0)
        THEN LET m == Leftmost(raw, p0, "BLOCK")
             IN  IF m = <<>> THEN make_unmatched_quote_error(lx)
                 ELSE LET start == ByteIndex(raw, m[1])
                          end == ByteIndex(raw, m[2])
                          found == input_position(lx, end)
                          substr == SubSeq(raw, m[1] + 1, m[2])
                          tok == Ok("BlockStr", Location(start, lx.line, lx.col),
                                    SubSeq(raw, m[1] + 4, m[2] - 3))
                      IN  Step([lx EXCEPT
                                  !.input = found.input,
                                  !.position = IF found.pos # -1 THEN found.pos
                                               ELSE lx.position,
                                  !.line = lx.line + LinesCount(substr)],
                               tok)
        ELSE LET m == Leftmost(raw, p0, "SINGLE")
             IN  IF m = <<>> THEN make_unmatched_quote_error(lx)
                 ELSE LET end_off == ByteIndex(raw, m[2] - 1)
                          found == input_position(lx, end_off)
                          tok == Ok("Str", Location(init_pos, lx.line, lx.col),
                                    SubSeq(raw, m[1] + 2, m[2] - 1))
                      IN  Step([lx EXCEPT
                                  !.input = found.input,
                                  !.position = IF found.pos # -1
                                               THEN lx.position + found.pos + 1
                                               ELSE lx.position,
                                  !.col = IF found.pos # -1
                                          THEN lx.col + found.pos + 1
                                          ELSE lx.col],
                               tok)

\* ignore_newline, ignore_whitespace and ignore_comments up to their call of
\* get_next_token
ignore_newline(lx) ==
    [lx EXCEPT !.line = lx.line + 1, !.col = 1,
               !.position = lx.position + 1, !.input = lx.input + 1]

ignore_whitespace(lx) == advance(lx)

ignore_comments(lx) ==
    LET lx1 == [lx EXCEPT !.input = lx.input + 1]     \* consume #
        nl == input_find_newline(lx1)
        lx2 == [lx1 EXCEPT !.input = nl.input]
    IN  IF nl.index # -1 THEN advance_to(lx2, nl.index) ELSE lx2

RECURSIVE get_next_token(_)
get_next_token(lx) ==
    LET pk == input_peek(lx)
    IN  IF pk = <<>> THEN Step([lx EXCEPT !.ended = TRUE], TokEnd)
        ELSE LET index == pk[1]
                 next == pk[2]
             IN  CASE next \in Punctuation -> lex_punctuation(lx, next)
                   [] next = "#" -> get_next_token(ignore_comments(lx))
                   [] next \in {" ", "\t", ","} -> get_next_token(ignore_whitespace(lx))
                   [] next = "\n" -> get_next_token(ignore_newline(lx))
                   [] next = "\"" -> lex_string(lx, index)
                   [] next \in Lower \cup Upper -> lex_name(lx, index)
                   [] next \in Digits \cup {"-"} -> lex_number(lx, index)
                   [] next = "." -> lex_ellipsis(lx, index)
                   [] OTHER -> make_unknown_character_error(lx)

\* variant of next: the iterator does not remember that it has yielded End
Lexer_next_forgetful(lx) ==
    IF lx.ended THEN Step(lx, None)
    ELSE IF ~lx.initialized THEN Step([lx EXCEPT !.initialized = TRUE], TokStart)
    ELSE IF input_peek(lx) # <<>> THEN get_next_token(lx)
    ELSE Step(lx, TokEnd)

\* impl Iterator for Lexer: next
Lexer_next(lx) ==
    IF lx.ended THEN Step(lx, None)
    ELSE IF ~lx.initialized THEN Step([lx EXCEPT !.initialized = TRUE], TokStart)
    ELSE IF input_peek(lx) # <<>> THEN get_next_token(lx)
    ELSE Step([lx EXCEPT !.ended = TRUE], TokEnd)

-----------------------------------------------------------------------------
(* The parser (ast.rs).  A parser function takes the state s of AST.lexer, *)
(* the Peekable<Lexer>, and gives back [s, ok, v]: the state it leaves, and *)
(* Ok(v) or Err(v).  Option values are <<>> (None) and <<x>> (Some(x)).    *)
(* A panic inside the lexer unwinds the whole call: s.aborted records it,  *)
(* the stream then reads as exhausted, and parse reports the abort.        *)
(* Lexer::next depends on the Lexer alone, so s.rest holds the calls the   *)
(* Lexer has yet to answer (its item and the Lexer it leaves, call by call, *)
(* up to the first None or panic) and the parser takes them one at a time.  *)

\* Lexer::next called on lx again and again, until it answers None or panics
RECURSIVE Lexer_steps(_)
Lexer_steps(lx) ==
    LET Then(st) == IF st.item = None \/ st.item = Panic THEN <<st>>
                    ELSE <<st>> \o Lexer_steps(st.lexer)
    IN  Then(Lexer_next(lx))

Stream(lx, pk, ab) ==
    [lexer |-> lx, peeked |-> pk, aborted |-> ab, rest |-> Lexer_steps(lx)]

R(s, ok, v) == [s |-> s, ok |-> ok, v |-> v]

\* ParseError values
ParseErr(kind, location, expected, received) ==
    [error |-> kind, location |-> location, expected |-> expected, received |-> received]

BadValue == ParseErr("BadValue", IGNORED_LOCATION, "", <<>>)
DocumentEmpty == ParseErr("DocumentEmpty", IGNORED_LOCATION, "", <<>>)
NotImplemented == ParseErr("NotImplemented", IGNORED_LOCATION, "", <<>>)
EOF == ParseErr("EOF", IGNORED_LOCATION, "", <<>>)
ArgumentEmpty(location) == ParseErr("ArgumentEmpty", location, "", <<>>)
ObjectEmpty(location) == ParseErr("ObjectEmpty", location, "", <<>>)
LexError(e) == ParseErr("LexError", e.loc, e.kind, e.value)
UnexpectedToken(expected, tok) == ParseErr("UnexpectedToken", tok.loc, expected, <<tok>>)
UnexpectedKeyword(expected, received, location) ==
    ParseErr("UnexpectedKeyword", location, expected, received)

\* `let x = e;` of the parser's functions: the rest of the function, given x
Bind(e, rest(_)) == rest(e)

\* pull the next item out of the Lexer behind the Peekable
Pull(s) ==
    IF s.rest = <<>> THEN [s |-> s, item |-> None]
    ELSE Bind(Head(s.rest), LAMBDA st :
        IF st.item = Panic
        THEN [s |-> [s EXCEPT !.lexer = [st.lexer EXCEPT !.ended = TRUE],
                              !.aborted = TRUE, !.rest = <<>>],
              item |-> None]
        ELSE [s |-> [s EXCEPT !.lexer = st.lexer, !.rest = Tail(s.rest)],
              item |-> st.item])

\* Peekable::next
lexer_next(s) ==
    IF s.peeked # <<>>
    THEN [s |-> [s EXCEPT !.peeked = <<>>], item |-> s.peeked[1]]
    ELSE Pull(s)

\* Peekable::peek
lexer_peek(s) ==
    IF s.peeked # <<>>
    THEN [s |-> s, item |-> s.peeked[1]]
    ELSE Bind(Pull(s), LAMBDA n :
        [s |-> [n.s EXCEPT !.peeked = <<n.item>>], item |-> n.item])

expect_token(s, kind) ==
    Bind(lexer_next(s), LAMBDA n :
        CASE n.item.tag = "Ok" ->
                IF n.item.kind = kind THEN R(n.s, TRUE, n.item)
                ELSE R(n.s, FALSE, UnexpectedToken(kind, n.item))
          [] n.item.tag = "Err" -> R(n.s, FALSE, LexError(n.item))
          [] OTHER -> R(n.s, FALSE, EOF))

\* never fails: v is <<>> or <<token>>
expect_optional_token(s, kind) ==
    Bind(lexer_peek(s), LAMBDA n :
        IF n.item.tag = "Ok" /\ n.item.kind = kind
        THEN R(lexer_next(n.s).s, TRUE, <<n.item>>)
        ELSE R(n.s, TRUE, <<>>))

unwrap_peeked_token(s) ==
    Bind(lexer_peek(s), LAMBDA n :
        CASE n.item.tag = "Ok" -> R(n.s, TRUE, n.item)
          [] n.item.tag = "Err" -> R(n.s, FALSE, LexError(n.item))
          [] OTHER -> R(n.s, FALSE, EOF))

unwrap_next_token(s) ==
    Bind(lexer_next(s), LAMBDA n :
        CASE n.item.tag = "Ok" -> R(n.s, TRUE, n.item)
          [] n.item.tag = "Err" -> R(n.s, FALSE, LexError(n.item))
          [] OTHER -> R(n.s, FALSE, EOF))

-----------------------------------------------------------------------------
(* Node constructors (nodes.rs) *)

\* the Location an error built by a node constructor carries: that of the
\* token the constructor was given
ErrorLocation(tok) == tok.loc

NameNode_new(s, token) ==
    IF token.kind = "Name" THEN R(s, TRUE, token.value)
    ELSE R(s, FALSE, ParseErr("UnexpectedToken", ErrorLocation(token),
                              "Token<Name>", <<token>>))

StringValueNode_new(s, token) ==
    CASE token.kind = "Str" ->
            R(s, TRUE, [node |-> "StringValue", value |-> token.value, block |-> FALSE])
      [] token.kind = "BlockStr" ->
            R(s, TRUE, [node |-> "StringValue", value |-> token.value, block |-> TRUE])
      [] OTHER -> R(s, FALSE, ParseErr("UnexpectedToken", ErrorLocation(token),
                                       "Token<Str> or Token<BlockStr>", <<token>>))

NamedTypeNode_new(s, tok) ==
    Bind(NameNode_new(s, tok), LAMBDA n :
        IF ~n.ok THEN n ELSE R(s, TRUE, [node |-> "Named", name |-> n.v]))

ListTypeNode_new(list_type) == [node |-> "List", list_type |-> list_type]

NonNull(field_type) == [node |-> "NonNull", of |-> field_type]

-----------------------------------------------------------------------------
(* Grammar functions (ast.rs) *)

Keyword ==
    [ true |-> <<"t", "r", "u", "e">>,
      false |-> <<"f", "a", "l", "s", "e">>,
      null |-> <<"n", "u", "l", "l">>,
      type |-> <<"t", "y", "p", "e">>,
      enum |-> <<"e", "n", "u", "m">>,
      union |-> <<"u", "n", "i", "o", "n">>,
      interface |-> <<"i", "n", "t", "e", "r", "f", "a", "c", "e">>,
      input |-> <<"i", "n", "p", "u", "t">>,
      scalar |-> <<"s", "c", "a", "l", "a", "r">>,
      extend |-> <<"e", "x", "t", "e", "n", "d">>,
      query |-> <<"q", "u", "e", "r", "y">>,
      fragment |-> <<"f", "r", "a", "g", "m", "e", "n", "t">>,
      implements |-> <<"i", "m", "p", "l", "e", "m", "e", "n", "t", "s">>,
      on |-> <<"o", "n">> ]

parse_description(s) ==
    Bind(unwrap_peeked_token(s), LAMBDA pk :
        IF ~pk.ok THEN pk
        ELSE IF pk.v.kind \in {"BlockStr", "Str"}
        THEN Bind(unwrap_next_token(pk.s), LAMBDA tok :
                 IF ~tok.ok THEN tok
                 ELSE Bind(StringValueNode_new(tok.s, tok.v), LAMBDA sv :
                          IF ~sv.ok THEN sv ELSE R(sv.s, TRUE, <<sv.v>>)))
        ELSE R(pk.s, TRUE, <<>>))

\* variant of the optional `!`: after a list it marks the element, not the list
WrapNonNull_element(s, field_type) ==
    Bind(expect_optional_token(s, "Bang"), LAMBDA bang :
        IF bang.v = <<>> THEN R(bang.s, TRUE, field_type)
        ELSE IF field_type.node = "List"
        THEN R(bang.s, TRUE, ListTypeNode_new(NonNull(field_type.list_type)))
        ELSE R(bang.s, TRUE, NonNull(field_type)))

\* the optional `!` that ends parse_field_type
WrapNonNull(s, field_type) ==
    Bind(expect_optional_token(s, "Bang"), LAMBDA bang :
        IF bang.v # <<>> THEN R(bang.s, TRUE, NonNull(field_type))
        ELSE R(bang.s, TRUE, field_type))

RECURSIVE parse_field_type(_)
parse_field_type(s) ==
    Bind(expect_optional_token(s, "OpenSquare"), LAMBDA open :
        IF open.v # <<>>
        THEN Bind(parse_field_type(open.s), LAMBDA inner :
                 IF ~inner.ok THEN inner
                 ELSE Bind(expect_token(inner.s, "CloseSquare"), LAMBDA close :
                          IF ~close.ok THEN close
                          ELSE WrapNonNull(close.s, ListTypeNode_new(inner.v))))
        ELSE Bind(expect_token(open.s, "Name"), LAMBDA name :
                 IF ~name.ok THEN name
                 ELSE Bind(NamedTypeNode_new(name.s, name.v), LAMBDA named :
                          IF ~named.ok THEN named
                          ELSE WrapNonNull(named.s, named.v))))

parse_variable(s) ==
    Bind(expect_token(s, "Dollar"), LAMBDA dollar :
        IF ~dollar.ok THEN dollar
        ELSE Bind(unwrap_next_token(dollar.s), LAMBDA name :
                 IF ~name.ok THEN name
                 ELSE Bind(NameNode_new(name.s, name.v), LAMBDA nn :
                          IF ~nn.ok THEN nn
                          ELSE R(nn.s, TRUE, [node |-> "Variable", name |-> nn.v]))))

RECURSIVE parse_value(_)
RECURSIVE parse_list_values(_, _)
RECURSIVE parse_object_fields(_, _)

\* the loop of parse_list_value
parse_list_values(s, values) ==
    Bind(expect_optional_token(s, "CloseSquare"), LAMBDA close :
        IF close.v # <<>> THEN R(close.s, TRUE, [node |-> "ListValue", values |-> values])
        ELSE Bind(parse_value(close.s), LAMBDA value :
                 IF ~value.ok THEN value
                 ELSE parse_list_values(value.s, Append(values, value.v))))

parse_list_value(s) ==
    Bind(expect_token(s, "OpenSquare"), LAMBDA open :
        IF ~open.ok THEN open ELSE parse_list_values(open.s, <<>>))

\* the loop of parse_object_value
parse_object_fields(s, fields) ==
    Bind(expect_optional_token(s, "CloseBrace"), LAMBDA close :
        IF close.v # <<>> THEN R(close.s, TRUE, [node |-> "ObjectValue", fields |-> fields])
        ELSE Bind(unwrap_next_token(close.s), LAMBDA name :
                 IF ~name.ok THEN name
                 ELSE Bind(expect_token(name.s, "Colon"), LAMBDA colon :
                          IF ~colon.ok THEN colon
                      ELSE Bind(parse_value(colon.s), LAMBDA value :
                          IF ~value.ok THEN value
                      ELSE Bind(NameNode_new(value.s, name.v), LAMBDA nn :
                          IF ~nn.ok THEN nn
                      ELSE parse_object_fields(nn.s,
                               Append(fields, [name |-> nn.v, value |-> value.v])))))))

parse_object_value(s) ==
    Bind(expect_token(s, "OpenBrace"), LAMBDA open :
        IF ~open.ok THEN open ELSE parse_object_fields(open.s, <<>>))

parse_value(s) ==
    Bind(unwrap_peeked_token(s), LAMBDA pk :
        IF ~pk.ok THEN pk
        ELSE Bind(pk.v, LAMBDA tok :
            CASE tok.kind = "Name" ->
                    Bind(unwrap_next_token(pk.s), LAMBDA n :
                        IF ~n.ok THEN n
                        ELSE CASE tok.value = Keyword.true ->
                                    R(n.s, TRUE, [node |-> "Bool", value |-> TRUE])
                               [] tok.value = Keyword.false ->
                                    R(n.s, TRUE, [node |-> "Bool", value |-> FALSE])
                               [] tok.value = Keyword.null -> R(n.s, TRUE, [node |-> "Null"])
                               [] OTHER -> R(n.s, TRUE, [node |-> "Enum", value |-> tok.value]))
              [] tok.kind \in {"Int", "Float"} ->
                    Bind(unwrap_next_token(pk.s), LAMBDA n :
                        IF ~n.ok THEN n
                        ELSE R(n.s, TRUE, [node |-> tok.kind, value |-> tok.value]))
              [] tok.kind \in {"Str", "BlockStr"} ->
                    Bind(unwrap_next_token(pk.s), LAMBDA n :
                        IF ~n.ok THEN n ELSE StringValueNode_new(n.s, n.v))
              [] tok.kind = "Dollar" -> parse_variable(pk.s)
              [] tok.kind = "OpenSquare" -> parse_list_value(pk.s)
              [] tok.kind = "OpenBrace" -> parse_object_value(pk.s)
              [] OTHER ->
                    R(pk.s, FALSE,
                      UnexpectedToken(
                          "One of (Name, Int, Float, Str, Dollar, OpenSquare, OpenBrace)",
                          tok))))

parse_default_value(s) ==
    Bind(expect_optional_token(s, "Equals"), LAMBDA eq :
        IF eq.v = <<>> THEN R(eq.s, TRUE, <<>>)
        ELSE Bind(parse_value(eq.s), LAMBDA value :
                 IF ~value.ok THEN value ELSE R(value.s, TRUE, <<value.v>>)))

parse_argument(s) ==
    Bind(unwrap_next_token(s), LAMBDA name :
        IF ~name.ok THEN name
        ELSE Bind(expect_token(name.s, "Colon"), LAMBDA colon :
            IF ~colon.ok THEN colon
        ELSE Bind(parse_value(colon.s), LAMBDA value :
            IF ~value.ok THEN value
        ELSE Bind(NameNode_new(value.s, name.v), LAMBDA nn :
            IF ~nn.ok THEN nn
        ELSE R(nn.s, TRUE, [name |-> nn.v, value |-> value.v])))))

\* variant of the loop of parse_arguments: a list without arguments is taken
RECURSIVE parse_arguments_loop_lenient(_, _)
parse_arguments_loop_lenient(s, args) ==
    Bind(expect_optional_token(s, "CloseParen"), LAMBDA close :
        IF close.v # <<>> THEN R(close.s, TRUE, <<args>>)
        ELSE Bind(parse_argument(close.s), LAMBDA arg :
                 IF ~arg.ok THEN arg
                 ELSE parse_arguments_loop_lenient(arg.s, Append(args, arg.v))))

\* the loop of parse_arguments
RECURSIVE parse_arguments_loop(_, _)
parse_arguments_loop(s, args) ==
    Bind(expect_optional_token(s, "CloseParen"), LAMBDA close :
        IF close.v # <<>>
        THEN IF args = <<>> THEN R(close.s, FALSE, ArgumentEmpty(close.v[1].loc))
             ELSE R(close.s, TRUE, <<args>>)
        ELSE Bind(parse_argument(close.s), LAMBDA arg :
                 IF ~arg.ok THEN arg
                 ELSE parse_arguments_loop(arg.s, Append(args, arg.v))))

parse_arguments(s) ==
    Bind(expect_optional_token(s, "OpenParen"), LAMBDA open :
        IF open.v # <<>> THEN parse_arguments_loop(open.s, <<>>)
        ELSE R(open.s, TRUE, <<>>))

DirectiveNode_new(s, name, arguments) ==
    Bind(NameNode_new(s, name), LAMBDA nn :
        IF ~nn.ok THEN nn
        ELSE R(s, TRUE, [node |-> "Directive", name |-> nn.v, arguments |-> arguments]))

parse_directive(s) ==
    Bind(expect_token(s, "At"), LAMBDA at :
        IF ~at.ok THEN at
        ELSE Bind(unwrap_next_token(at.s), LAMBDA name :
            IF ~name.ok THEN name
        ELSE Bind(parse_arguments(name.s), LAMBDA arguments :
            IF ~arguments.ok THEN arguments
        ELSE DirectiveNode_new(arguments.s, name.v, arguments.v))))

\* the loop of parse_directives
RECURSIVE parse_directives_loop(_, _)
parse_directives_loop(s, directives) ==
    Bind(unwrap_peeked_token(s), LAMBDA pk :
        IF ~pk.ok THEN pk
        ELSE IF pk.v.kind = "At"
        THEN Bind(parse_directive(pk.s), LAMBDA d :
                 IF ~d.ok THEN d
                 ELSE parse_directives_loop(d.s, Append(directives, d.v)))
        ELSE IF directives # <<>> THEN R(pk.s, TRUE, <<directives>>)
        ELSE R(pk.s, TRUE, <<>>))

parse_directives(s) == parse_directives_loop(s, <<>>)

InputValueDefinitionNode_new(s, name, input_type, description) ==
    Bind(NameNode_new(s, name), LAMBDA nn :
        IF ~nn.ok THEN nn
        ELSE R(s, TRUE, [node |-> "InputValueDefinition", description |-> description,
                         name |-> nn.v, input_type |-> input_type,
                         default_value |-> <<>>, directives |-> <<>>]))

parse_input_value(s) ==
    Bind(parse_description(s), LAMBDA description :
        IF ~description.ok THEN description
        ELSE Bind(unwrap_next_token(description.s), LAMBDA name_tok :
            IF ~name_tok.ok THEN name_tok
        ELSE Bind(expect_token(name_tok.s, "Colon"), LAMBDA colon :
            IF ~colon.ok THEN colon
        ELSE Bind(parse_field_type(colon.s), LAMBDA type_node :
            IF ~type_node.ok THEN type_node
        ELSE Bind(parse_default_value(type_node.s), LAMBDA default_value :
            IF ~default_value.ok THEN default_value
        ELSE Bind(parse_directives(default_value.s), LAMBDA directives :
            IF ~directives.ok THEN directives
        ELSE Bind(InputValueDefinitionNode_new(
                                    directives.s, name_tok.v, type_node.v, description.v), LAMBDA input_value :
            IF ~input_value.ok THEN input_value
        ELSE R(input_value.s, TRUE,
               [input_value.v EXCEPT !.default_value = default_value.v,
                                     !.directives = directives.v]))))))))

\* the loop of parse_arguments_definition
RECURSIVE parse_arguments_definition_loop(_, _)
parse_arguments_definition_loop(s, args) ==
    Bind(parse_input_value(s), LAMBDA value :
        IF ~value.ok THEN value
        ELSE Bind(expect_optional_token(value.s, "CloseParen"), LAMBDA close :
                 IF close.v # <<>> THEN R(close.s, TRUE, <<Append(args, value.v)>>)
                 ELSE parse_arguments_definition_loop(close.s, Append(args, value.v))))

parse_arguments_definition(s) ==
    Bind(expect_optional_token(s, "OpenParen"), LAMBDA open :
        IF open.v = <<>> THEN R(open.s, TRUE, <<>>)
        ELSE Bind(expect_optional_token(open.s, "CloseParen"), LAMBDA close :
                 IF close.v # <<>> THEN R(close.s, FALSE, ArgumentEmpty(close.v[1].loc))
                 ELSE parse_arguments_definition_loop(close.s, <<>>)))

FieldDefinitionNode_new(s, name, field_type, description, arguments) ==
    Bind(NameNode_new(s, name), LAMBDA nn :
        IF ~nn.ok THEN nn
        ELSE R(s, TRUE, [node |-> "FieldDefinition", description |-> description,
                         name |-> nn.v, arguments |-> arguments,
                         field_type |-> field_type]))

parse_field(s) ==
    Bind(parse_description(s), LAMBDA description :
        IF ~description.ok THEN description
        ELSE Bind(expect_token(description.s, "Name"), LAMBDA name :
            IF ~name.ok THEN name
        ELSE Bind(parse_arguments_definition(name.s), LAMBDA arguments :
            IF ~arguments.ok THEN arguments
        ELSE Bind(expect_token(arguments.s, "Colon"), LAMBDA colon :
            IF ~colon.ok THEN colon
        ELSE Bind(parse_field_type(colon.s), LAMBDA field_type :
            IF ~field_type.ok THEN field_type
        ELSE FieldDefinitionNode_new(field_type.s, name.v, field_type.v,
                                     description.v, arguments.v))))))

\* the loop of parse_fields
RECURSIVE parse_fields_loop(_, _)
parse_fields_loop(s, fields) ==
    Bind(expect_optional_token(s, "CloseBrace"), LAMBDA close :
        IF close.v # <<>> THEN R(close.s, TRUE, fields)
        ELSE Bind(parse_field(close.s), LAMBDA field :
                 IF ~field.ok THEN field
                 ELSE parse_fields_loop(field.s, Append(fields, field.v))))

parse_fields(s) ==
    Bind(expect_token(s, "OpenBrace"), LAMBDA open :
        IF ~open.ok THEN open ELSE parse_fields_loop(open.s, <<>>))

\* the loop of parse_object_interfaces
RECURSIVE parse_object_interfaces_loop(_, _)
parse_object_interfaces_loop(s, interface_names) ==
    Bind(expect_token(s, "Name"), LAMBDA interface_name :
        IF ~interface_name.ok THEN interface_name
        ELSE Bind(NamedTypeNode_new(interface_name.s, interface_name.v), LAMBDA named :
            IF ~named.ok THEN named
        ELSE Bind(expect_optional_token(named.s, "Amp"), LAMBDA amp :
            IF amp.v = <<>> THEN R(amp.s, TRUE, <<Append(interface_names, named.v)>>)
            ELSE parse_object_interfaces_loop(amp.s, Append(interface_names, named.v)))))

parse_object_interfaces(s) ==
    Bind(expect_optional_token(s, "Name"), LAMBDA name_tok :
        IF name_tok.v = <<>> THEN R(name_tok.s, TRUE, <<>>)
        ELSE IF name_tok.v[1].value = Keyword.implements
             THEN parse_object_interfaces_loop(name_tok.s, <<>>)
             ELSE R(name_tok.s, FALSE,
                    UnexpectedKeyword("implements", name_tok.v[1].value, name_tok.v[1].loc)))

\* the loop of parse_input_fields
RECURSIVE parse_input_fields_loop(_, _)
parse_input_fields_loop(s, fields) ==
    Bind(expect_optional_token(s, "CloseBrace"), LAMBDA close :
        IF close.v # <<>> THEN R(close.s, TRUE, fields)
        ELSE Bind(parse_input_value(close.s), LAMBDA field :
                 IF ~field.ok THEN field
                 ELSE parse_input_fields_loop(field.s, Append(fields, field.v))))

parse_input_fields(s) ==
    Bind(expect_token(s, "OpenBrace"), LAMBDA tok :
        IF ~tok.ok THEN tok
        ELSE Bind(parse_input_fields_loop(tok.s, <<>>), LAMBDA fields :
            IF ~fields.ok THEN fields
            ELSE IF fields.v # <<>> THEN fields
            ELSE R(fields.s, FALSE, ObjectEmpty(tok.v.loc))))

EnumValueDefinitionNode_new(s, name, description, directives) ==
    Bind(NameNode_new(s, name), LAMBDA nn :
        IF ~nn.ok THEN nn
        ELSE R(s, TRUE, [node |-> "EnumValueDefinition", description |-> description,
                         name |-> nn.v, directives |-> directives]))

\* the loop of parse_enum_values
RECURSIVE parse_enum_values_loop(_, _)
parse_enum_values_loop(s, values) ==
    Bind(expect_optional_token(s, "CloseBrace"), LAMBDA close :
        IF close.v # <<>> THEN R(close.s, TRUE, values)
        ELSE Bind(parse_description(close.s), LAMBDA description :
            IF ~description.ok THEN description
        ELSE Bind(expect_token(description.s, "Name"), LAMBDA name :
            IF ~name.ok THEN name
        ELSE Bind(parse_directives(name.s), LAMBDA directives :
            IF ~directives.ok THEN directives
        ELSE Bind(EnumValueDefinitionNode_new(directives.s, name.v,
                                                      description.v, directives.v), LAMBDA value :
            IF ~value.ok THEN value
            ELSE parse_enum_values_loop(value.s, Append(values, value.v)))))))

parse_enum_values(s) ==
    Bind(expect_token(s, "OpenBrace"), LAMBDA open :
        IF ~open.ok THEN open ELSE parse_enum_values_loop(open.s, <<>>))

\* NamedTypeNode::new(self.unwrap_next_token()?)?
parse_union_member(s) ==
    Bind(unwrap_next_token(s), LAMBDA tok :
        IF ~tok.ok THEN tok ELSE NamedTypeNode_new(tok.s, tok.v))

\* the loop of parse_union_types
RECURSIVE parse_union_types_loop(_, _)
parse_union_types_loop(s, types) ==
    Bind(expect_optional_token(s, "Pipe"), LAMBDA pipe :
        IF pipe.v = <<>> THEN R(pipe.s, TRUE, types)
        ELSE Bind(parse_union_member(pipe.s), LAMBDA member :
                 IF ~member.ok THEN member
                 ELSE parse_union_types_loop(member.s, Append(types, member.v))))

parse_union_types(s) ==
    Bind(expect_optional_token(s, "Pipe"), LAMBDA pipe :
        Bind(parse_union_member(pipe.s), LAMBDA member :
        IF ~member.ok THEN member
        ELSE parse_union_types_loop(member.s, <<member.v>>)))

\* variant of ObjectTypeDefinitionNode::new: any field list is accepted
ObjectTypeDefinitionNode_new_unchecked(s, tok, description, fields) ==
    Bind(NameNode_new(s, tok), LAMBDA nn :
        IF ~nn.ok THEN nn
        ELSE R(s, TRUE, [node |-> "ObjectTypeDefinition", description |-> description,
                         name |-> nn.v, interfaces |-> <<>>, directives |-> <<>>,
                         fields |-> fields]))

ObjectTypeDefinitionNode_new(s, tok, description, fields) ==
    IF fields # <<>>
    THEN Bind(NameNode_new(s, tok), LAMBDA nn :
             IF ~nn.ok THEN nn
             ELSE R(s, TRUE, [node |-> "ObjectTypeDefinition", description |-> description,
                              name |-> nn.v, interfaces |-> <<>>, directives |-> <<>>,
                              fields |-> fields]))
    ELSE R(s, FALSE, ObjectEmpty(ErrorLocation(tok)))

parse_object_type(s, description) ==
    Bind(expect_token(s, "Name"), LAMBDA name_tok :
        IF ~name_tok.ok THEN name_tok
        ELSE Bind(parse_object_interfaces(name_tok.s), LAMBDA interfaces :
            IF ~interfaces.ok THEN interfaces
        ELSE Bind(parse_directives(interfaces.s), LAMBDA directives :
            IF ~directives.ok THEN directives
        ELSE Bind(parse_fields(directives.s), LAMBDA fields :
            IF ~fields.ok THEN fields
        ELSE Bind(ObjectTypeDefinitionNode_new(fields.s, name_tok.v, description,
                                                     fields.v), LAMBDA obj :
            IF ~obj.ok THEN obj
            ELSE R(obj.s, TRUE, [obj.v EXCEPT !.interfaces = interfaces.v,
                                              !.directives = directives.v]))))))

ObjectTypeExtensionNode_new(s, tok, description) ==
    Bind(NameNode_new(s, tok), LAMBDA nn :
        IF ~nn.ok THEN nn
        ELSE R(s, TRUE, [node |-> "ObjectTypeExtension", description |-> description,
                         name |-> nn.v, interfaces |-> <<>>, directives |-> <<>>,
                         fields |-> <<>>]))

parse_object_type_extension(s, description) ==
    Bind(unwrap_next_token(s), LAMBDA name_tok :
        IF ~name_tok.ok THEN name_tok
        ELSE Bind(parse_object_interfaces(name_tok.s), LAMBDA interfaces :
            IF ~interfaces.ok THEN interfaces
        ELSE Bind(parse_directives(interfaces.s), LAMBDA directives :
            IF ~directives.ok THEN directives
        ELSE Bind(ObjectTypeExtensionNode_new(directives.s, name_tok.v,
                                                               description), LAMBDA type_extension :
            IF ~type_extension.ok THEN type_extension
        ELSE Bind(unwrap_peeked_token(type_extension.s), LAMBDA pk :
                 Bind([type_extension.v EXCEPT !.interfaces = interfaces.v,
                                                 !.directives = directives.v], LAMBDA ext :
            IF ~pk.ok THEN pk
            ELSE IF pk.v.kind = "OpenBrace"
            THEN Bind(parse_fields(pk.s), LAMBDA fields :
                     IF ~fields.ok THEN fields
                     ELSE R(fields.s, TRUE, [ext EXCEPT !.fields = <<fields.v>>]))
            ELSE R(pk.s, TRUE, ext)))))))

InterfaceTypeDefinitionNode_new(s, tok, description) ==
    Bind(NameNode_new(s, tok), LAMBDA nn :
        IF ~nn.ok THEN nn
        ELSE R(s, TRUE, [node |-> "InterfaceTypeDefinition", description |-> description,
                         name |-> nn.v, directives |-> <<>>, fields |-> <<>>]))

parse_interface_type(s, description) ==
    Bind(expect_token(s, "Name"), LAMBDA name_tok :
        IF ~name_tok.ok THEN name_tok
        ELSE Bind(parse_directives(name_tok.s), LAMBDA directives :
            IF ~directives.ok THEN directives
        ELSE Bind(parse_fields(directives.s), LAMBDA fields :
            IF ~fields.ok THEN fields
        ELSE Bind(InterfaceTypeDefinitionNode_new(fields.s, name_tok.v, description), LAMBDA interface :
            IF ~interface.ok THEN interface
            ELSE R(interface.s, TRUE, [interface.v EXCEPT !.directives = directives.v,
                                                          !.fields = fields.v])))))

InputTypeDefinitionNode_new(s, name_tok, description) ==
    Bind(NameNode_new(s, name_tok), LAMBDA nn :
        IF ~nn.ok THEN nn
        ELSE R(s, TRUE, [node |-> "InputTypeDefinition", description |-> description,
                         name |-> nn.v, fields |-> <<>>]))

parse_input_type(s, description) ==
    Bind(expect_token(s, "Name"), LAMBDA name_tok :
        IF ~name_tok.ok THEN name_tok
        ELSE Bind(InputTypeDefinitionNode_new(name_tok.s, name_tok.v, description), LAMBDA input_type :
            IF ~input_type.ok THEN input_type
        ELSE Bind(parse_input_fields(input_type.s), LAMBDA fields :
            IF ~fields.ok THEN fields
            ELSE R(fields.s, TRUE, [input_type.v EXCEPT !.fields = fields.v]))))

ScalarTypeDefinitionNode_new(s, tok, description) ==
    Bind(NameNode_new(s, tok), LAMBDA nn :
        IF ~nn.ok THEN nn
        ELSE R(s, TRUE, [node |-> "ScalarTypeDefinition", description |-> description,
                         name |-> nn.v, directives |-> <<>>]))

parse_scalar_type(s, description) ==
    Bind(expect_token(s, "Name"), LAMBDA name_tok :
        IF ~name_tok.ok THEN name_tok
        ELSE Bind(parse_directives(name_tok.s), LAMBDA directives :
            IF ~directives.ok THEN directives
        ELSE Bind(ScalarTypeDefinitionNode_new(directives.s, name_tok.v,
                                                             description), LAMBDA scalar_type :
            IF ~scalar_type.ok THEN scalar_type
            ELSE R(scalar_type.s, TRUE, [scalar_type.v EXCEPT !.directives = directives.v]))))

EnumTypeDefinitionNode_new(s, tok, description, directives, values) ==
    Bind(NameNode_new(s, tok), LAMBDA nn :
        IF ~nn.ok THEN nn
        ELSE R(s, TRUE, [node |-> "EnumTypeDefinition", description |-> description,
                         name |-> nn.v, directives |-> directives, values |-> values]))

parse_enum_type(s, description) ==
    Bind(expect_token(s, "Name"), LAMBDA name_tok :
        IF ~name_tok.ok THEN name_tok
        ELSE IF name_tok.v.value \in {Keyword.true, Keyword.false, Keyword.null}
        THEN R(name_tok.s, FALSE, BadValue)
        ELSE Bind(parse_directives(name_tok.s), LAMBDA directives :
            IF ~directives.ok THEN directives
        ELSE Bind(parse_enum_values(directives.s), LAMBDA values :
            IF ~values.ok THEN values
        ELSE EnumTypeDefinitionNode_new(values.s, name_tok.v, description,
                                        directives.v, values.v))))

UnionTypeDefinitionNode_new(s, tok, description, directives, types) ==
    Bind(NameNode_new(s, tok), LAMBDA nn :
        IF ~nn.ok THEN nn
        ELSE R(s, TRUE, [node |-> "UnionTypeDefinition", description |-> description,
                         name |-> nn.v, directives |-> directives, types |-> types]))

parse_union_type(s, description) ==
    Bind(expect_token(s, "Name"), LAMBDA name_tok :
        IF ~name_tok.ok THEN name_tok
        ELSE Bind(parse_directives(name_tok.s), LAMBDA directives :
            IF ~directives.ok THEN directives
        ELSE Bind(expect_token(directives.s, "Equals"), LAMBDA equals :
            IF ~equals.ok THEN equals
        ELSE Bind(parse_union_types(equals.s), LAMBDA types :
            IF ~types.ok THEN types
        ELSE UnionTypeDefinitionNode_new(types.s, name_tok.v, description,
                                         directives.v, types.v)))))

parse_type(s, description) ==
    Bind(unwrap_next_token(s), LAMBDA tok :
        IF ~tok.ok THEN tok
        ELSE IF tok.v.kind # "Name" THEN R(tok.s, FALSE, UnexpectedToken("Token::Name", tok.v))
        ELSE CASE tok.v.value = Keyword.type -> parse_object_type(tok.s, description)
               [] tok.v.value = Keyword.enum -> parse_enum_type(tok.s, description)
               [] tok.v.value = Keyword.union -> parse_union_type(tok.s, description)
               [] tok.v.value = Keyword.interface -> parse_interface_type(tok.s, description)
               [] tok.v.value = Keyword.input -> parse_input_type(tok.s, description)
               [] tok.v.value = Keyword.scalar -> parse_scalar_type(tok.s, description)
               [] OTHER -> R(tok.s, FALSE, BadValue))

parse_type_extension(s, description) ==
    Bind(unwrap_next_token(s), LAMBDA extend :
        IF ~extend.ok THEN extend
        ELSE Bind(unwrap_next_token(extend.s), LAMBDA tok :
            IF ~tok.ok THEN tok
        ELSE IF tok.v.kind = "Name" /\ tok.v.value = Keyword.type
             THEN parse_object_type_extension(tok.s, description)
             ELSE R(tok.s, FALSE, UnexpectedToken("Token::Name", tok.v))))

-----------------------------------------------------------------------------
(* Executable definitions (ast.rs) *)

VariableDefinitionNode(variable, variable_type, default_value) ==
    [node |-> "VariableDefinition", variable |-> variable,
     variable_type |-> variable_type, default_value |-> default_value]

parse_variable_definition(s) ==
    Bind(parse_variable(s), LAMBDA variable :
        IF ~variable.ok THEN variable
        ELSE Bind(expect_token(variable.s, "Colon"), LAMBDA colon :
            IF ~colon.ok THEN colon
        ELSE Bind(parse_field_type(colon.s), LAMBDA variable_type :
            IF ~variable_type.ok THEN variable_type
        ELSE Bind(expect_optional_token(variable_type.s, "Equals"), LAMBDA equals :
            IF equals.v = <<>>
            THEN R(equals.s, TRUE,
                   VariableDefinitionNode(variable.v, variable_type.v, <<>>))
            ELSE Bind(parse_value(equals.s), LAMBDA value :
                     IF ~value.ok THEN value
                     ELSE R(value.s, TRUE,
                            VariableDefinitionNode(variable.v, variable_type.v, <<value.v>>)))))))

\* the loop of parse_variables
RECURSIVE parse_variables_loop(_, _)
parse_variables_loop(s, variables) ==
    Bind(expect_optional_token(s, "CloseParen"), LAMBDA close :
        IF close.v # <<>> THEN R(close.s, TRUE, variables)
        ELSE Bind(parse_variable_definition(close.s), LAMBDA definition :
                 IF ~definition.ok THEN definition
                 ELSE parse_variables_loop(definition.s, Append(variables, definition.v))))

parse_variables(s) ==
    Bind(expect_optional_token(s, "OpenParen"), LAMBDA open :
        IF open.v = <<>> THEN R(open.s, TRUE, <<>>)
        ELSE parse_variables_loop(open.s, <<>>))

\* FieldNode::new: a field named by the token, nothing else set
FieldNode_new(s, tok) ==
    Bind(NameNode_new(s, tok), LAMBDA nn :
        IF ~nn.ok THEN nn
        ELSE R(s, TRUE, [node |-> "Field", name |-> nn.v, alias |-> <<>>,
                         arguments |-> <<>>, directives |-> <<>>, selections |-> <<>>]))

\* FieldNode::with_alias
FieldNode_with_alias(s, field, tok) ==
    Bind(NameNode_new(s, tok), LAMBDA nn :
        IF ~nn.ok THEN nn ELSE R(s, TRUE, [field EXCEPT !.alias = <<nn.v>>]))

\* FragmentDefinitionNode::new
FragmentDefinitionNode_new(s, name, node_type) ==
    Bind(NameNode_new(s, name), LAMBDA nn :
        IF ~nn.ok THEN nn
        ELSE Bind(NamedTypeNode_new(s, node_type), LAMBDA nt :
            IF ~nt.ok THEN nt
            ELSE R(s, TRUE, [node |-> "FragmentDefinition", name |-> nn.v,
                             node_type |-> nt.v, directives |-> <<>>,
                             selections |-> <<>>])))

RECURSIVE parse_selection_set(_)
RECURSIVE parse_selection_set_loop(_, _)
RECURSIVE parse_selection(_)
RECURSIVE parse_field_node(_)
RECURSIVE parse_fragment_spread(_)

\* the part of parse_field_node after the FieldNode is made
parse_field_node_rest(s, field) ==
    Bind(parse_arguments(s), LAMBDA arguments :
        IF ~arguments.ok THEN arguments
        ELSE Bind(parse_directives(arguments.s), LAMBDA directives :
            IF ~directives.ok THEN directives
        ELSE Bind(unwrap_peeked_token(directives.s), LAMBDA pk :
                 Bind([field EXCEPT !.arguments = arguments.v,
                                    !.directives = directives.v], LAMBDA f :
            IF ~pk.ok THEN pk
            ELSE IF pk.v.kind = "OpenBrace"
            THEN Bind(parse_selection_set(pk.s), LAMBDA selections :
                     IF ~selections.ok THEN selections
                     ELSE R(selections.s, TRUE, [f EXCEPT !.selections = <<selections.v>>]))
            ELSE R(pk.s, TRUE, f)))))

parse_field_node(s) ==
    Bind(unwrap_next_token(s), LAMBDA name :
        IF ~name.ok THEN name
        ELSE Bind(expect_optional_token(name.s, "Colon"), LAMBDA colon :
            IF colon.v # <<>>
            THEN Bind(unwrap_next_token(colon.s), LAMBDA root :
                     IF ~root.ok THEN root
                     ELSE Bind(FieldNode_new(root.s, root.v), LAMBDA field :
                         IF ~field.ok THEN field
                     ELSE Bind(FieldNode_with_alias(field.s, field.v, name.v), LAMBDA aliased :
                         IF ~aliased.ok THEN aliased
                         ELSE parse_field_node_rest(aliased.s, aliased.v))))
            ELSE Bind(FieldNode_new(colon.s, name.v), LAMBDA field :
                     IF ~field.ok THEN field
                     ELSE parse_field_node_rest(field.s, field.v))))

parse_selection(s) ==
    Bind(unwrap_peeked_token(s), LAMBDA pk :
        IF ~pk.ok THEN pk
        ELSE CASE pk.v.kind = "Name" ->
                    Bind(parse_field_node(pk.s), LAMBDA field :
                        IF ~field.ok THEN field
                        ELSE R(field.s, TRUE, [selection |-> "Field", of |-> field.v]))
               [] pk.v.kind = "Spread" ->
                    Bind(parse_fragment_spread(pk.s), LAMBDA spread :
                        IF ~spread.ok THEN spread
                        ELSE R(spread.s, TRUE, [selection |-> "Fragment", of |-> spread.v]))
               [] OTHER -> R(pk.s, FALSE, NotImplemented))

parse_selection_set_loop(s, selections) ==
    Bind(expect_optional_token(s, "CloseBrace"), LAMBDA close :
        IF close.v # <<>> THEN R(close.s, TRUE, selections)
        ELSE Bind(parse_selection(close.s), LAMBDA selection :
                 IF ~selection.ok THEN selection
                 ELSE parse_selection_set_loop(selection.s, Append(selections, selection.v))))

parse_selection_set(s) ==
    Bind(expect_token(s, "OpenBrace"), LAMBDA open :
        IF ~open.ok THEN open ELSE parse_selection_set_loop(open.s, <<>>))

parse_fragment_spread_node(s) ==
    Bind(unwrap_next_token(s), LAMBDA name :
        IF ~name.ok THEN name
        ELSE Bind(parse_directives(name.s), LAMBDA directives :
            IF ~directives.ok THEN directives
        ELSE Bind(NameNode_new(directives.s, name.v), LAMBDA nn :
            IF ~nn.ok THEN nn
            ELSE R(nn.s, TRUE, [node |-> "FragmentSpread", name |-> nn.v,
                                directives |-> directives.v]))))

parse_inline_fragment_spread(s) ==
    Bind(unwrap_next_token(s), LAMBDA on_tok :
        IF ~on_tok.ok THEN on_tok
        ELSE Bind(unwrap_next_token(on_tok.s), LAMBDA name :
            IF ~name.ok THEN name
        ELSE Bind(parse_directives(name.s), LAMBDA directives :
            IF ~directives.ok THEN directives
        ELSE Bind(parse_selection_set(directives.s), LAMBDA selections :
            IF ~selections.ok THEN selections
        ELSE Bind(NamedTypeNode_new(selections.s, name.v), LAMBDA nt :
            IF ~nt.ok THEN nt
            ELSE R(nt.s, TRUE, [node |-> "InlineFragmentSpread", node_type |-> <<nt.v>>,
                                directives |-> directives.v, selections |-> selections.v]))))))

parse_anonymous_inline_fragmen_spread(s) ==
    Bind(parse_directives(s), LAMBDA directives :
        IF ~directives.ok THEN directives
        ELSE Bind(parse_selection_set(directives.s), LAMBDA selections :
            IF ~selections.ok THEN selections
            ELSE R(selections.s, TRUE,
                   [node |-> "InlineFragmentSpread", node_type |-> <<>>,
                    directives |-> directives.v, selections |-> selections.v])))

parse_fragment_spread(s) ==
    Bind(expect_token(s, "Spread"), LAMBDA spread :
        IF ~spread.ok THEN spread
        ELSE Bind(unwrap_peeked_token(spread.s), LAMBDA pk :
            IF ~pk.ok THEN pk
        ELSE CASE pk.v.kind = "Name" ->
                    IF pk.v.value = Keyword.on THEN parse_inline_fragment_spread(pk.s)
                    ELSE parse_fragment_spread_node(pk.s)
               [] pk.v.kind = "At" -> parse_anonymous_inline_fragmen_spread(pk.s)
               [] OTHER -> R(pk.s, FALSE,
                             UnexpectedToken("One of Token::Name or Token::At", pk.v))))

parse_fragment_definition(s) ==
    Bind(unwrap_next_token(s), LAMBDA keyword :
        IF ~keyword.ok THEN keyword
        ELSE IF keyword.v.kind # "Name"
        THEN R(keyword.s, FALSE, UnexpectedToken("Token<Name>", keyword.v))
        ELSE IF keyword.v.value # Keyword.fragment
        THEN R(keyword.s, FALSE,
               UnexpectedKeyword("fragment", keyword.v.value, keyword.v.loc))
        ELSE Bind(unwrap_next_token(keyword.s), LAMBDA name :
            IF ~name.ok THEN name
        ELSE Bind(unwrap_next_token(name.s), LAMBDA on :
            IF ~on.ok THEN on
        ELSE Bind(unwrap_next_token(on.s), LAMBDA node_type :
            IF ~node_type.ok THEN node_type
        ELSE Bind(FragmentDefinitionNode_new(node_type.s, name.v, node_type.v), LAMBDA frag_def :
            IF ~frag_def.ok THEN frag_def
        ELSE Bind(parse_directives(frag_def.s), LAMBDA directives :
            IF ~directives.ok THEN directives
        ELSE Bind(parse_selection_set(directives.s), LAMBDA selections :
            IF ~selections.ok THEN selections
            ELSE R(selections.s, TRUE, [frag_def.v EXCEPT !.directives = directives.v,
                                                          !.selections = selections.v]))))))))

QueryDefinitionNode(name, variables, selections) ==
    [node |-> "QueryDefinition", name |-> name, variables |-> variables,
     selections |-> selections]

parse_query(s) ==
    Bind(unwrap_next_token(s), LAMBDA name :
        IF ~name.ok THEN name
        ELSE Bind(parse_variables(name.s), LAMBDA variables :
            IF ~variables.ok THEN variables
        ELSE Bind(parse_selection_set(variables.s), LAMBDA selections :
            IF ~selections.ok THEN selections
        ELSE Bind(NameNode_new(selections.s, name.v), LAMBDA nn :
            IF ~nn.ok THEN nn
            ELSE R(nn.s, TRUE, QueryDefinitionNode(<<nn.v>>, variables.v, selections.v))))))

parse_anonymous_query(s) ==
    Bind(parse_selection_set(s), LAMBDA selections :
        IF ~selections.ok THEN selections
        ELSE R(selections.s, TRUE, QueryDefinitionNode(<<>>, <<>>, selections.v)))

parse_operation_type(s) ==
    Bind(unwrap_next_token(s), LAMBDA keyword :
        IF ~keyword.ok THEN keyword
        ELSE IF keyword.v.kind # "Name"
        THEN R(keyword.s, FALSE, UnexpectedToken("Token<Name>", keyword.v))
        ELSE IF keyword.v.value = Keyword.query THEN parse_query(keyword.s)
        ELSE R(keyword.s, FALSE,
               UnexpectedKeyword("One of 'query'", <<"n", "a", "m", "e">>, keyword.v.loc)))

parse_executable(s) ==
    Bind(unwrap_peeked_token(s), LAMBDA tok :
        IF ~tok.ok THEN tok
        ELSE CASE tok.v.kind = "Name" ->
                    IF tok.v.value = Keyword.query THEN parse_operation_type(tok.s)
                    ELSE IF tok.v.value = Keyword.fragment THEN parse_fragment_definition(tok.s)
                    ELSE R(tok.s, FALSE, BadValue)
               [] tok.v.kind = "OpenBrace" -> parse_anonymous_query(tok.s)
               [] OTHER -> R(tok.s, FALSE, UnexpectedToken(
                    "One of 'query', 'mutation', 'subscription', 'fragment', or anonymous query",
                    tok.v)))

\* wraps the node of a definition in the DefinitionNode variant it belongs to
Definition(variant, r) ==
    IF ~r.ok THEN r ELSE R(r.s, TRUE, [definition |-> variant, of |-> r.v])

parse_definition(s) ==
    Bind(parse_description(s), LAMBDA description :
        IF ~description.ok THEN description
        ELSE Bind(unwrap_peeked_token(description.s), LAMBDA tok :
            IF ~tok.ok THEN tok
        ELSE CASE tok.v.kind = "Name" ->
                    IF tok.v.value \in {Keyword.type, Keyword.enum, Keyword.union, Keyword.interface, Keyword.input, Keyword.scalar}
                    THEN Definition("TypeSystem", parse_type(tok.s, description.v))
                    ELSE IF tok.v.value = Keyword.extend
                    THEN Definition("Extension", parse_type_extension(tok.s, description.v))
                    ELSE IF tok.v.value \in {Keyword.query, Keyword.fragment}
                    THEN Definition("Executable", parse_executable(tok.s))
                    ELSE R(tok.s, FALSE, BadValue)
               [] tok.v.kind = "OpenBrace" -> Definition("Executable", parse_executable(tok.s))
               [] OTHER -> R(tok.s, FALSE,
                             UnexpectedToken("Token<Name> or Token<OpenBrace>", tok.v))))

\* variant of the loop of parse_definitions: a definition is put in front of
\* the ones parsed before it
RECURSIVE parse_definitions_loop_reversed(_, _)
parse_definitions_loop_reversed(s, nodes) ==
    Bind(parse_definition(s), LAMBDA definition :
        IF ~definition.ok THEN definition
        ELSE Bind(expect_optional_token(definition.s, "End"), LAMBDA end :
                 IF end.v # <<>> THEN R(end.s, TRUE, <<definition.v>> \o nodes)
                 ELSE parse_definitions_loop_reversed(end.s, <<definition.v>> \o nodes)))

\* the loop of parse_definitions
RECURSIVE parse_definitions_loop(_, _)
parse_definitions_loop(s, nodes) ==
    Bind(parse_definition(s), LAMBDA definition :
        IF ~definition.ok THEN definition
        ELSE Bind(expect_optional_token(definition.s, "End"), LAMBDA end :
                 IF end.v # <<>> THEN R(end.s, TRUE, Append(nodes, definition.v))
                 ELSE parse_definitions_loop(end.s, Append(nodes, definition.v))))

\* variant of parse_definitions: End is not looked for before the first definition
parse_definitions_unchecked(s) ==
    Bind(expect_token(s, "Start"), LAMBDA start :
        IF ~start.ok THEN start ELSE parse_definitions_loop(start.s, <<>>))

parse_definitions(s) ==
    Bind(expect_token(s, "Start"), LAMBDA start :
        IF ~start.ok THEN start
        ELSE Bind(expect_optional_token(start.s, "End"), LAMBDA end :
                 IF end.v # <<>> THEN R(end.s, FALSE, DocumentEmpty)
                 ELSE parse_definitions_loop(end.s, <<>>)))

\* variant of AST::new: the Lexer of the previous call is kept
AST_new_kept == Stream(lexer, peeked, FALSE)

\* AST::new: a Peekable over a fresh Lexer of the input
AST_new == Stream(Lexer_new, <<>>, FALSE)

Document_new(definitions) == [definitions |-> definitions]

\* what a call of parse gives its caller: Ok(Document), Err(ParseError), or
\* a panic that unwinds through it
NoError == ParseErr("", IGNORED_LOCATION, "", <<>>)
NoResult == [outcome |-> "None", document |-> Document_new(<<>>), error |-> NoError]
ResultOk(document) == [outcome |-> "Ok", document |-> document, error |-> NoError]
ResultErr(e) == [outcome |-> "Err", document |-> Document_new(<<>>), error |-> e]
ResultPanic == [outcome |-> "Panic", document |-> Document_new(<<>>), error |-> NoError]

\* syntax::parse and AST::parse; gives the stream it leaves and the result
parse ==
    Bind(parse_definitions(AST_new), LAMBDA definitions :
        [s |-> definitions.s,
         result |-> IF definitions.s.aborted THEN ResultPanic
                    ELSE IF ~definitions.ok THEN ResultErr(definitions.v)
                    ELSE ResultOk(Document_new(definitions.v))])

-----------------------------------------------------------------------------
(* Validation (validation.rs, nodes/object_type_extension.rs) *)

\* ValidationResult: Ok(()) or Err(ValidationError { message }); a message is
\* the sequence of the pieces it is formatted from
ValidOk == [ok |-> TRUE, message |-> <<>>]
ValidErr(message) == [ok |-> FALSE, message |-> message]

\* NodeWithFields::get_fields of ObjectTypeExtensionNode
extension_get_fields(node) == IF node.fields # <<>> THEN node.fields[1] ELSE <<>>

\* NodeWithFields::get_fields of ObjectTypeDefinitionNode
object_get_fields(node) == node.fields

\* <[T]>::contains: some element equals the needle (derived PartialEq: all fields)
contains(haystack, needle) == \E i \in 1..Len(haystack) : haystack[i] = needle

contains_any_element(haystack, needles) ==
    \E i \in 1..Len(needles) : contains(haystack, needles[i])

\* Vec<&str>::join(", ")
RECURSIVE join(_)
join(names) ==
    IF names = <<>> THEN <<>>
    ELSE IF Len(names) = 1 THEN <<names[1]>>
    ELSE <<names[1], <<",", " ">>>> \o join(Tail(names))

validate_extension_fields_against_original(extension_fields, original_fields) ==
    IF contains_any_element(original_fields, extension_fields)
    THEN LET conflicting_names ==
                 SelectSeq(extension_fields, LAMBDA needle : contains(original_fields, needle))
         IN  ValidErr(<<"Invalid Extension: Cannot redefine field(s) ">>
                      \o join([i \in 1..Len(conflicting_names) |-> conflicting_names[i].name]))
    ELSE ValidOk

\* variant of validate: the fields are not looked at
validate_without_fields(node) ==
    IF ~(node.directives = <<>> /\ node.interfaces = <<>>)
    THEN ValidOk
    ELSE ValidErr(<<"Object Extension must have at least one of the following: Directive, Interface, or Field">>)

\* ValidNode for ObjectTypeExtensionNode
validate(node) ==
    IF ~(node.directives = <<>> /\ node.interfaces = <<>> /\ node.fields = <<>>)
    THEN ValidOk
    ELSE ValidErr(<<"Object Extension must have at least one of the following: Directive, Interface, or Field">>)

\* ValidExtensionNode<ObjectTypeDefinitionNode> for ObjectTypeExtensionNode
validate_extension(node, orig) ==
    IF orig # <<>>
    THEN validate_extension_fields_against_original(extension_get_fields(node),
                                                    object_get_fields(orig[1]))
    ELSE ValidErr(<<"Invalid Object Extension ", node.name, ": No type of name ",
                    node.name, " in schema">>)

NoNode == [node |-> "None"]
NoVerdict == [op |-> "none", result |-> ValidOk]

-----------------------------------------------------------------------------
(* Texts *)

MaxPieces == 3      \* lexical texts are made of at most this many pieces
MaxNone == 2        \* calls of next() watched after the iterator has ended
MaxTypeTokens == 5  \* tokens in the type of the field of a generated object type
MaxValues == 2      \* values in a generated enum
MaxBlank == 3       \* pieces in a text of insignificant characters
MaxCalls == 3       \* calls of parse in a row

Quote == "\""
BlockOpen == <<Quote, Quote, Quote>>

\* the pieces lexical texts are made of: a letter, a two-byte letter, an Int,
\* a Float, a dot, blank, line feed, comment sign, a string, a one-line and a
\* two-line block string, a lone quote and a punctuation mark
Pieces ==
    { <<"a">>, <<"U+00E9">>, <<"1">>, <<"2", ".", "5">>, <<".">>, <<" ">>,
      <<"\n">>, <<"#">>, <<Quote, "s", Quote>>,
      BlockOpen \o <<"b">> \o BlockOpen,
      BlockOpen \o <<"\n">> \o BlockOpen,
      <<Quote>>, <<"{">> }

RECURSIVE Concats(_, _)
Concats(parts, n) ==
    IF n = 0 THEN {<<>>}
    ELSE LET shorter == Concats(parts, n - 1)
         IN  shorter \cup {s \o q : s \in shorter, q \in parts}

\* a string late in the text, with a token before it and a token after it
W_late == <<"l", "a", "t", "e", "_", "n", "a", "m", "e", " ", "1", " ">>
LateStringTexts ==
    { W_late \o string \o after :
        string \in { BlockOpen \o <<"b">> \o BlockOpen, <<Quote, "s", Quote>> },
        after \in { <<"{">>, <<" ", "{">>, <<" ", "a">> } }

LexTexts == Concats(Pieces, MaxPieces) \cup LateStringTexts

\* texts of whitespace, commas, line feeds and comments only
BlankPieces == { <<" ">>, <<"\t">>, <<",">>, <<"\n">>, <<"#", "c">>, <<"#", "\n">> }
BlankTexts == Concats(BlankPieces, MaxBlank)

\* type O {f:<type>} for every sequence of type tokens
TypeTokens == { <<"[">>, <<"]">>, <<"!">>, <<"T">> }
FieldText(type) == Keyword.type \o <<" ", "O", " ", "{", "f", ":">> \o type \o <<"}">>
FieldTexts == { FieldText(type) : type \in Concats(TypeTokens, MaxTypeTokens) }

\* object types without fields
W_Empty == <<"E", "m", "p", "t", "y">>
EmptyObjectText(lead, interfaces, directives) ==
    lead \o Keyword.type \o <<" ">> \o W_Empty \o interfaces \o directives \o <<" ", "{", "}">>
EmptyObjectTexts ==
    { EmptyObjectText(lead, interfaces, directives) :
        lead \in { <<>>, <<" ">>, <<"\n">> },
        interfaces \in { <<>>, <<" ">> \o Keyword.implements \o <<" ", "I">>,
                         <<" ">> \o Keyword.implements \o <<" ", "I", "&", "J">> },
        directives \in { <<>>, <<" ", "@", "d">>, <<" ", "@", "d", "(", "x", ":", "1", ")">> } }

\* enum <name> {<values>}
EnumNames == { <<"E">>, Keyword.true, Keyword.null }
EnumValuePieces == { <<" ", "A">>, <<" ">> \o Keyword.true, <<" ">> \o Keyword.false, <<" ">> \o Keyword.null }
EnumText(name, values) == Keyword.enum \o <<" ">> \o name \o <<" ", "{">> \o values \o <<" ", "}">>
EnumTexts ==
    { EnumText(name, values) : name \in EnumNames,
                               values \in Concats(EnumValuePieces, MaxValues) }

\* whole documents of each kind of definition, well-formed and not
SampleTexts ==
    { <<"{", "a", "}">>,
      <<"q", "u", "e", "r", "y", " ", "q", " ", "{", "a", "}">>,
      <<"q", "u", "e", "r", "y", " ", "{", "a", "}">>,
      <<"q", "u", "e", "r", "y", " ", "(", "$", "v", ":", "T", ")", " ", "{", "a", "}">>,
      <<"q", "u", "e", "r", "y", " ", "q", "(", "$", "v", ":", "T", "=", "1", ")", " ", "{", "a", "}">>,
      <<"f", "r", "a", "g", "m", "e", "n", "t", " ", "F", " ", "o", "n", " ", "T", " ", "{", "a", "}">>,
      <<"{", ".", ".", ".", "F", "}">>,
      <<"{", ".", ".", ".", " ", "o", "n", " ", "T", " ", "{", "a", "}", "}">>,
      <<"{", ".", ".", ".", "@", "d", " ", "{", "a", "}", "}">>,
      <<"{", "a", ":", "b", "(", "x", ":", "1", ")", " ", "@", "d", " ", "{", "c", "}", "}">>,
      <<"{", "a", "(", ")", "}">>,
      <<"e", "x", "t", "e", "n", "d", " ", "t", "y", "p", "e", " ", "A">>,
      <<"e", "x", "t", "e", "n", "d", " ", "t", "y", "p", "e", " ", "A", " ", "{", "f", ":", "T", "}">>,
      <<"e", "x", "t", "e", "n", "d", " ", "t", "y", "p", "e", " ", "A", " ", "@", "d">>,
      <<"u", "n", "i", "o", "n", " ", "U", " ", "=", " ", "A", " ", "|", " ", "B">>,
      <<"u", "n", "i", "o", "n", " ", "U", " ", "=", " ", "|", " ", "A">>,
      <<"s", "c", "a", "l", "a", "r", " ", "S">>,
      <<"i", "n", "t", "e", "r", "f", "a", "c", "e", " ", "I", " ", "{", "f", ":", "T", "}">>,
      <<"i", "n", "p", "u", "t", " ", "P", " ", "{", "f", ":", "T", "}">>,
      <<"i", "n", "p", "u", "t", " ", "P", " ", "{", "}">>,
      <<"t", "y", "p", "e", " ", "A", " ", "{", "f", "(", "x", ":", "T", ")", ":", "T", "}">>,
      <<"t", "y", "p", "e", " ", "A", " ", "{", "f", "(", ")", ":", "T", "}">>,
      <<"s", "c", "a", "l", "a", "r", " ", "S", " ", "s", "c", "a", "l", "a", "r", " ", "R">>,
      <<"s", "c", "a", "l", "a", "r", " ", "S", " ", "t", "y", "p", "e", " ", "A", " ", "{", "}", " ", "s", "c", "a", "l", "a", "r", " ", "R">>,
      <<"s", "c", "a", "l", "a", "r", " ", "S", " ", "1">>,
      <<"t", "y", "p", "e", " ", "A", " ", "{", "f", ":", "T", "}", " ", "{", "a", "}">>,
      <<Quote, "d", Quote, " ", "s", "c", "a", "l", "a", "r", " ", "S">>,
      <<"f", "o", "o">>,
      <<"t", "y", "p", "e", " ", "A", " ", "B", " ", "{", "f", ":", "T", "}">>,
      <<"{", "a", "(", "x", ":", "[", "1", ",", "$", "v", ",", "{", "k", ":", "t", "r", "u", "e", "}", "]", ")", "}">>,
      <<"{", "a", "(", "x", ":", "2", ".", "5", ",", "y", ":", Quote, "s", Quote, ",", "z", ":", "n", "u", "l", "l", ",", "w", ":", "E", ")", "}">> }

\* texts with the Int 1 where a name belongs: as the name of an argument, of an
\* input value, as the key of an object value and as the name of a variable
NameSlotTexts ==
    { <<"{", "a", "(", "1", ":", "b", ")", "}">>,
      <<"{", "a", "(", "1", " ", "b", ")", "}">>,
      <<"t", "y", "p", "e", " ", "A", " ", "{", "f", "(", "1", ":", "T", ")", ":", "T", "}">>,
      <<"t", "y", "p", "e", " ", "A", " ", "{", "f", "(", "1", " ", "T", ")", ":", "T", "}">>,
      <<"{", "a", "(", "x", ":", "{", "1", ":", "b", "}", ")", "}">>,
      <<"{", "a", "(", "x", ":", "{", "1", " ", "b", "}", ")", "}">>,
      <<"q", "u", "e", "r", "y", " ", "q", "(", "$", "1", ":", "T", ")", " ", "{", "a", "}">> }

\* documents of several well-formed definitions, each piece with the kind and
\* the name of the definition it writes
MaxDefinitions == 3 \* definitions in a generated document

DefinitionPieces ==
    { [text |-> Keyword.scalar \o <<" ", "S">>, node |-> "ScalarTypeDefinition", name |-> <<"S">>],
      [text |-> Keyword.scalar \o <<" ", "R">>, node |-> "ScalarTypeDefinition", name |-> <<"R">>],
      [text |-> Keyword.type \o <<" ", "A", " ", "{", "f", ":", "T", "}">>,
       node |-> "ObjectTypeDefinition", name |-> <<"A">>],
      [text |-> Keyword.enum \o <<" ", "E", " ", "{", "A", "}">>,
       node |-> "EnumTypeDefinition", name |-> <<"E">>],
      [text |-> <<"{", "a", "}">>, node |-> "QueryDefinition", name |-> <<>>] }

DefinitionSeqs == UNION { [1..n -> DefinitionPieces] : n \in 1..MaxDefinitions }

RECURSIVE DocumentText(_)
DocumentText(pieces) ==
    IF Len(pieces) = 1 THEN pieces[1].text
    ELSE pieces[1].text \o <<" ">> \o DocumentText(Tail(pieces))

DefinitionTexts == { DocumentText(pieces) : pieces \in DefinitionSeqs }

\* extend type A <interfaces> <directives> <block> <a definition that follows>
ExtensionCases ==
    [ interfaces : { <<>>, <<" ">> \o Keyword.implements \o <<" ", "I">> },
      directives : { <<>>, <<" ", "@", "d">> },
      block : { <<>>, <<" ", "{", "}">> },
      follows : { <<>>, <<" ">> \o Keyword.scalar \o <<" ", "S">>,
                  <<" ">> \o Keyword.type \o <<" ", "B", " ", "{", "f", ":", "T", "}">> } ]

ExtensionText(case) ==
    Keyword.extend \o <<" ">> \o Keyword.type \o <<" ", "A">>
        \o case.interfaces \o case.directives \o case.block \o case.follows

ExtensionTexts == { ExtensionText(case) : case \in ExtensionCases }

\* a field, a directive and a field definition, each with a list of
\* arguments: absent, opened and closed at once, or of two arguments
ArgumentLists == { <<>>, <<"(", ")">>, <<"(", "x", ":", "1", " ", "y", ":", "2", ")">> }
ArgumentDefinitionLists ==
    { <<>>, <<"(", ")">>, <<"(", "x", ":", "T", " ", "y", ":", "U", ")">> }

FieldWith(arguments) == <<"{", "a">> \o arguments \o <<"}">>
DirectiveWith(arguments) == <<"{", "a", " ", "@", "d">> \o arguments \o <<"}">>
FieldDefinitionWith(arguments) ==
    Keyword.type \o <<" ", "A", " ", "{", "f">> \o arguments \o <<":", "T", "}">>

ArgumentTexts ==
    { FieldWith(arguments) : arguments \in ArgumentLists }
        \cup { DirectiveWith(arguments) : arguments \in ArgumentLists }
        \cup { FieldDefinitionWith(arguments) : arguments \in ArgumentDefinitionLists }

ParseTexts == BlankTexts \cup FieldTexts \cup EmptyObjectTexts \cup EnumTexts
              \cup SampleTexts \cup NameSlotTexts \cup DefinitionTexts
              \cup ExtensionTexts \cup ArgumentTexts \cup LexTexts

-----------------------------------------------------------------------------
(* The Lexer driven as an iterator (lexer.rs, tokenize and the doc examples) *)

\* where the next token starts, counted in characters from 0: the first
\* character at or after i that is not blank, a comma, a line feed or part of
\* a comment
RECURSIVE SkipIgnored(_, _)
SkipIgnored(text, i) ==
    IF i >= Len(text) THEN Len(text)
    ELSE IF text[i + 1] \in {" ", "\t", ",", "\n"} THEN SkipIgnored(text, i + 1)
    ELSE IF text[i + 1] = "#"
         THEN LET ends == {j \in i..(Len(text) - 1) : text[j + 1] = "\n"}
              IN  IF ends = {} THEN Len(text) ELSE SkipIgnored(text, Min(ends) + 1)
    ELSE i

InitLexer ==
    /\ raw \in LexTexts
    /\ lexer = Lexer_new
    /\ peeked = <<>>
    /\ aborted = FALSE
    /\ yielded = <<>>
    /\ started = <<>>
    /\ pc = "iterate"
    /\ result = NoResult
    /\ calls = <<>>
    /\ extension = NoNode
    /\ original = <<>>
    /\ verdict = NoVerdict
    /\ NoNet

Nones(items) == Cardinality({i \in 1..Len(items) : items[i] = None})

\* one call of Lexer::next
IterNext ==
    /\ pc = "iterate"
    /\ ~aborted
    /\ Nones(yielded) < MaxNone
    /\ LET st == Lexer_next(lexer)
       IN  /\ lexer' = st.lexer
           /\ yielded' = Append(yielded, st.item)
           /\ started' = Append(started, SkipIgnored(raw, lexer.input))
           /\ aborted' = (st.item = Panic)
    /\ UNCHANGED <<raw, peeked, pc, result, calls, extension, original, verdict>>
    /\ UNCHANGED netvars

NextLexer == IterNext

SpecLexer == InitLexer /\ [][NextLexer]_vars

-----------------------------------------------------------------------------
(* syntax::parse called on a text (lib.rs) *)

InitCall(texts) ==
    /\ raw \in texts
    /\ lexer = Lexer_new
    /\ peeked = <<>>
    /\ aborted = FALSE
    /\ yielded = <<>>
    /\ started = <<>>
    /\ pc = "parse"
    /\ result = NoResult
    /\ calls = <<>>
    /\ extension = NoNode
    /\ original = <<>>
    /\ verdict = NoVerdict
    /\ NoNet

InitParse == InitCall(ParseTexts)

\* one call of parse(raw)
Parse ==
    /\ pc = "parse"
    /\ LET Return(call) ==
               /\ lexer' = call.s.lexer
               /\ peeked' = call.s.peeked
               /\ aborted' = call.s.aborted
               /\ result' = call.result
               /\ calls' = Append(calls, [text |-> raw, result |-> call.result])
       IN  Return(parse)
    /\ pc' = "done"
    /\ UNCHANGED <<raw, yielded, started, extension, original, verdict>>
    /\ UNCHANGED netvars

NextParse == Parse

SpecParse == InitParse /\ [][NextParse]_vars

\* the call of parse comes back to its caller
Returns == pc = "parse" /\ pc' = "done"

\* a call of parse runs to its end: nothing blocks it half-way
SpecParseLive == InitParse /\ [][NextParse]_vars /\ WF_pc(Returns)

-----------------------------------------------------------------------------
(* parse called again and again, on the same text or on another one *)

Interloper == Keyword.scalar \o <<" ", "S">>

CallTexts == BlankTexts \cup EmptyObjectTexts \cup EnumTexts \cup SampleTexts

InitCalls == InitCall(CallTexts)

\* the caller passes the next text: the first one again, or the other one
Again ==
    /\ pc = "done"
    /\ ~aborted
    /\ Len(calls) < MaxCalls
    /\ raw' \in {calls[1].text, Interloper}
    /\ pc' = "parse"
    /\ UNCHANGED <<lexer, peeked, aborted, yielded, started, result, calls,
                   extension, original, verdict>>
    /\ UNCHANGED netvars

NextCalls == Parse \/ Again

SpecCalls == InitCalls /\ [][NextCalls]_vars

-----------------------------------------------------------------------------
(* An extension validated, alone and against the definition it extends *)

MaxFields == 2      \* fields in a generated extension or object definition

W_foo == <<"f", "o", "o">>
W_bar == <<"b", "a", "r">>
W_Int == <<"I", "n", "t">>
W_String == <<"S", "t", "r", "i", "n", "g">>
W_Obj == <<"O", "b", "j">>

FieldDefinitions ==
    { [node |-> "FieldDefinition", description |-> <<>>, name |-> name,
       arguments |-> <<>>, field_type |-> [node |-> "Named", name |-> type]] :
        name \in {W_foo, W_bar}, type \in {W_Int, W_String} }

FieldLists == UNION { [1..n -> FieldDefinitions] : n \in 0..MaxFields }

Extensions ==
    { [node |-> "ObjectTypeExtension", description |-> <<>>, name |-> W_Obj,
       interfaces |-> interfaces, directives |-> directives, fields |-> fields] :
        interfaces \in { <<>>, << <<[node |-> "Named", name |-> <<"I">>]>> >> },
        directives \in { <<>>, << <<[node |-> "Directive", name |-> <<"d">>,
                                    arguments |-> <<>>]>> >> },
        fields \in { <<>> } \cup { <<list>> : list \in FieldLists } }

Originals ==
    { <<>> } \cup
    { << [node |-> "ObjectTypeDefinition", description |-> <<>>, name |-> W_Obj,
          interfaces |-> <<>>, directives |-> <<>>, fields |-> fields] >> :
        fields \in FieldLists \ { <<>> } }

InitValidate ==
    /\ raw = <<>>
    /\ lexer = Lexer_new
    /\ peeked = <<>>
    /\ aborted = FALSE
    /\ yielded = <<>>
    /\ started = <<>>
    /\ pc = "validate"
    /\ result = NoResult
    /\ calls = <<>>
    /\ extension \in Extensions
    /\ original \in Originals
    /\ verdict = NoVerdict
    /\ NoNet

\* extension.validate()
Validate ==
    /\ pc = "validate"
    /\ verdict' = [op |-> "validate", result |-> validate(extension)]
    /\ pc' = "validated"
    /\ UNCHANGED <<raw, lexer, peeked, aborted, yielded, started, result, calls,
                   extension, original>>
    /\ UNCHANGED netvars

\* extension.validate_extension(original)
ValidateExtension ==
    /\ pc = "validate"
    /\ verdict' = [op |-> "validate_extension",
                   result |-> validate_extension(extension, original)]
    /\ pc' = "validated"
    /\ UNCHANGED <<raw, lexer, peeked, aborted, yielded, started, result, calls,
                   extension, original>>
    /\ UNCHANGED netvars

NextValidate == Validate \/ ValidateExtension

SpecValidate == InitValidate /\ [][NextValidate]_vars

-----------------------------------------------------------------------------
(* The server: connection handlers and the database actor                  *)
(* (net/src/tcp/handler.rs, database/src/database.rs, net/src/handlers.rs) *)

\* a String that format! builds is kept as the sequence of the pieces of the
\* format string and of the values it puts between them

\* error.rs, format_location_message
format_location_message(message, location) ==
    <<message, " line ", location.line, ", column ", location.column>>

\* error.rs, format_expected_received_message
format_expected_received_message(message, location, expected, received) ==
    format_location_message(message, location)
        \o <<": Expected \"", expected, "\", but found \"", received, "\"">>

\* LexError::get_message, on the kind, the Location and the expected type
LexError_get_message(kind, location, expected) ==
    CASE kind = "EOF" -> <<"Parse Error: Encountered End of File unexpectedly">>
      [] kind = "UnmatchedQuote" ->
            format_location_message("Parse Error: Unmatched quote found on", location)
      [] kind = "UnknownCharacter" ->
            format_location_message("Parse Error: Unknown character found on", location)
      [] kind = "UnexpectedCharacter" ->
            format_location_message("Parse Error: Unexpected character found on", location)
      [] kind = "UnableToConvert" ->
            format_location_message("Parse Error: Unable to convert value at", location)
                \o <<": Expected one of ", expected>>

\* ParseError::get_message, which Display for ParseError writes
ParseError_get_message(e) ==
    CASE e.error = "NotImplemented" ->
            <<"Parse Error: One or more operations/types specified is not implemented">>
      [] e.error = "BadValue" ->
            <<"Parse Error: Bad value received. Please check input and try again.">>
      [] e.error = "DocumentEmpty" ->
            <<"Parse Error: Document is empty. Cannot parse an empty value">>
      [] e.error = "ArgumentEmpty" ->
            format_location_message("Parse Error: Argument empty on", e.location)
      [] e.error = "ObjectEmpty" ->
            format_location_message("Parse Error: Object empty on", e.location)
      [] e.error = "EOF" -> <<"Parse Error: Encountered End of File unexpectedly">>
      [] e.error = "LexError" -> LexError_get_message(e.expected, e.location, e.received)
      [] e.error = "UnexpectedToken" ->
            format_expected_received_message("Parse Error: Unexpected token on",
                                             e.location, e.expected, e.received)
      [] e.error = "UnexpectedKeyword" ->
            format_expected_received_message("Parse Error: Unexpected keyword on",
                                             e.location, e.expected, e.received)
      [] OTHER -> <<"Unknown error while parsing">>

\* Display for Document
Document_to_string(document) ==
    <<"Document<", Len(document.definitions), " definitions>">>

\* handle_database_request, from the result of its call of parse on
\* (a panic of parse unwinds through it: there is no String then)
handle_database_request(res) ==
    IF res.outcome = "Ok" THEN Document_to_string(res.document)
    ELSE ParseError_get_message(res.error)

MaxConnections == 2 \* connections open at once
MaxRequests == 2    \* messages a client sends on its connection

Conns == 1..MaxConnections

\* framed messages: a query, a number where a selection belongs, and a name
\* that ends in a character of two bytes
RequestTexts == { <<"{", "a", "}">>, <<"{", "1", "}">>, <<"{", "a", "U+00E9", "}">> }

RequestSeqs == UNION { [1..n -> RequestTexts] : n \in 0..MaxRequests }

\* a connection whose client will send the messages of `incoming`; the
\* oneshot channel of the request under way is `receive_one`
Connection_new(incoming) ==
    [ at |-> "read_message", incoming |-> incoming, forwarded |-> <<>>,
      receive_one |-> [state |-> "none", value |-> <<>>], written |-> <<>> ]

InitNet ==
    /\ raw = <<>>
    /\ lexer = Lexer_new
    /\ peeked = <<>>
    /\ aborted = FALSE
    /\ yielded = <<>>
    /\ started = <<>>
    /\ pc = "idle"
    /\ result = NoResult
    /\ calls = <<>>
    /\ extension = NoNode
    /\ original = <<>>
    /\ verdict = NoVerdict
    /\ connections \in [Conns -> {Connection_new(incoming) : incoming \in RequestSeqs}]
    /\ command = <<>>
    /\ tasks = {}
    /\ socket = NoSocket
    /\ buffer = <<>>

\* handle_connection: read_message gives Ok(Some(content)); the content goes
\* to the database actor with the sender of a fresh oneshot channel.  The
\* command channel holds 64 messages and a handler has one request under way,
\* so send never waits; its receiver lives as long as Database::run.
Forward(c) ==
    /\ connections[c].at = "read_message"
    /\ connections[c].incoming # <<>>
    /\ LET content == Head(connections[c].incoming)
       IN  /\ command' = Append(command, [gql_str |-> content, response |-> c])
           /\ connections' = [connections EXCEPT
                  ![c].incoming = Tail(@),
                  ![c].forwarded = Append(@, content),
                  ![c].receive_one = [state |-> "open", value |-> <<>>],
                  ![c].at = "receive_one"]
    /\ UNCHANGED <<raw, lexer, peeked, aborted, yielded, started, pc, result, calls,
                   extension, original, verdict, tasks, socket, buffer>>

\* handle_connection: receive_one.await is over; a response is written on the
\* connection, a closed channel is only logged; back to read_message
Respond(c) ==
    /\ connections[c].at = "receive_one"
    /\ connections[c].receive_one.state \in {"sent", "closed"}
    /\ connections' = [connections EXCEPT
           ![c].written = IF connections[c].receive_one.state = "sent"
                          THEN Append(@, connections[c].receive_one.value) ELSE @,
           ![c].receive_one = [state |-> "none", value |-> <<>>],
           ![c].at = "read_message"]
    /\ UNCHANGED <<raw, lexer, peeked, aborted, yielded, started, pc, result, calls,
                   extension, original, verdict, command, tasks, socket, buffer>>

\* handle_connection: read_message gives Err (the peer is gone): break
Disconnect(c) ==
    /\ connections[c].at = "read_message"
    /\ connections[c].incoming = <<>>
    /\ connections' = [connections EXCEPT ![c].at = "closed"]
    /\ UNCHANGED <<raw, lexer, peeked, aborted, yielded, started, pc, result, calls,
                   extension, original, verdict, command, tasks, socket, buffer>>

\* Database::run: command.recv() gives a request, a task is spawned for it
Database_run ==
    /\ command # <<>>
    /\ command' = Tail(command)
    /\ tasks' = tasks \cup {[gql_str |-> Head(command).gql_str,
                             response |-> Head(command).response, at |-> "spawned"]}
    /\ UNCHANGED <<raw, lexer, peeked, aborted, yielded, started, pc, result, calls,
                   extension, original, verdict, connections, socket, buffer>>

\* a spawned task starts: syntax::parse(&gql_str) is called.  The calls of
\* parse share nothing, so they are taken one after the other.
TaskParse(c) ==
    /\ pc = "idle"
    /\ \E task \in tasks :
          /\ task.response = c
          /\ task.at = "spawned"
          /\ raw' = task.gql_str
          /\ tasks' = (tasks \ {task}) \cup {[task EXCEPT !.at = "parse"]}
    /\ pc' = "parse"
    /\ UNCHANGED <<lexer, peeked, aborted, yielded, started, result, calls,
                   extension, original, verdict, connections, command, socket, buffer>>

\* the task after parse: the result is printed and "Received input" is sent
\* on the oneshot channel; a panic of parse ends the task and drops the sender
TaskSend(c) ==
    /\ pc = "done"
    /\ \E task \in tasks :
          /\ task.response = c
          /\ task.at = "parse"
          /\ tasks' = tasks \ {task}
    /\ connections' = [connections EXCEPT ![c].receive_one =
           IF result.outcome = "Panic" THEN [state |-> "closed", value |-> <<>>]
           ELSE [state |-> "sent", value |-> <<"Received input">>]]
    /\ pc' = "idle"
    /\ UNCHANGED <<raw, lexer, peeked, aborted, yielded, started, result, calls,
                   extension, original, verdict, command, socket, buffer>>

NextNet ==
    \/ \E c \in Conns : Forward(c) \/ Respond(c) \/ Disconnect(c)
    \/ Database_run
    \/ \E c \in Conns : TaskParse(c) \/ TaskSend(c)
    \/ Parse

SpecNet == InitNet /\ [][NextNet]_vars

-----------------------------------------------------------------------------
(* Framing of messages (net/src/message.rs, net/src/connection.rs): the    *)
(* bytes of a connection are "{", "}", the line feed, letters and the two   *)
(* bytes 0xC3 0xA9 of the character U+00E9.                                 *)

MaxMessages == 2    \* pieces the peer of the byte-level connection sends

\* std::str::from_utf8: the characters of the bytes, or an error
Utf8Valid(bytes) ==
    \A i \in 1..Len(bytes) :
        /\ bytes[i] = "0xC3" => i < Len(bytes) /\ bytes[i + 1] = "0xA9"
        /\ bytes[i] = "0xA9" => i > 1 /\ bytes[i - 1] = "0xC3"

RECURSIVE Utf8Chars(_)
Utf8Chars(bytes) ==
    IF bytes = <<>> THEN <<>>
    ELSE IF Head(bytes) = "0xC3" THEN <<"U+00E9">> \o Utf8Chars(Tail(Tail(bytes)))
    ELSE <<Head(bytes)>> \o Utf8Chars(Tail(bytes))

from_utf8(bytes) ==
    IF Utf8Valid(bytes) THEN [ok |-> TRUE, content |-> Utf8Chars(bytes)]
    ELSE [ok |-> FALSE, content |-> <<>>]

\* the fold of check_balanced_braces from byte i on
RECURSIVE check_balanced_braces_fold(_, _, _, _)
check_balanced_braces_fold(cursor, i, count, stop_flag) ==
    IF i > Len(cursor) THEN count
    ELSE IF stop_flag THEN check_balanced_braces_fold(cursor, i + 1, count, stop_flag)
    ELSE IF cursor[i] = "{" THEN check_balanced_braces_fold(cursor, i + 1, count + 1, stop_flag)
    ELSE IF cursor[i] = "}"
    THEN check_balanced_braces_fold(cursor, i + 1, count - 1, count - 1 = 0)
    ELSE check_balanced_braces_fold(cursor, i + 1, count, stop_flag)

\* TRUE for Ok(()), FALSE for Err(Incomplete)
check_balanced_braces(cursor) == ~(check_balanced_braces_fold(cursor, 1, 0, FALSE) > 0)

\* Message::ready: TRUE for Ok(()), FALSE for Err(Incomplete)
Message_ready(cursor) ==
    IF \E i \in 1..Len(cursor) : cursor[i] = "{" THEN check_balanced_braces(cursor)
    ELSE \E i \in 1..Len(cursor) : cursor[i] = "\n"

\* the fold of Message::parse from byte i on, with the two captured variables
RECURSIVE Message_parse_fold(_, _, _, _, _)
Message_parse_fold(cursor, i, unmatched, last_closed, first_closed) ==
    IF i > Len(cursor) THEN [last_closed |-> last_closed, first_closed |-> first_closed]
    ELSE IF cursor[i] = "{"
    THEN Message_parse_fold(cursor, i + 1, unmatched + 1, last_closed, first_closed)
    ELSE IF cursor[i] = "}"
    THEN IF unmatched - 1 = 0
         THEN Message_parse_fold(cursor, i + 1, unmatched - 1, i,
                                 IF first_closed = 0 THEN i ELSE first_closed)
         ELSE Message_parse_fold(cursor, i + 1, unmatched - 1, last_closed, first_closed)
    ELSE Message_parse_fold(cursor, i + 1, unmatched, last_closed, first_closed)

Document(slice) ==
    IF from_utf8(slice).ok
    THEN [kind |-> "Document", content |-> from_utf8(slice).content, byte_len |-> Len(slice)]
    ELSE [kind |-> "System", content |-> <<>>, byte_len |-> 0]

\* variant of Message::parse: the slice always ends at the last closing brace
Message_parse_to_last(cursor) ==
    IF cursor = <<>> THEN [kind |-> "Panic", content |-> <<>>, byte_len |-> 0]
    ELSE Document(SubSeq(cursor, 1, Message_parse_fold(cursor, 1, 0, 0, 0).last_closed))

\* Message::parse; cursor[0] of an empty buffer is out of bounds
Message_parse(cursor) ==
    IF cursor = <<>> THEN [kind |-> "Panic", content |-> <<>>, byte_len |-> 0]
    ELSE IF cursor[1] = "{"
    THEN Document(SubSeq(cursor, 1, Message_parse_fold(cursor, 1, 0, 0, 0).first_closed))
    ELSE Document(SubSeq(cursor, 1, Message_parse_fold(cursor, 1, 0, 0, 0).last_closed))

\* Connection::parse_message on the buffer buf: the Result and the buffer left
parse_message(buf) ==
    IF ~Message_ready(buf) THEN [result |-> "None", content |-> <<>>, buffer |-> buf]
    ELSE IF Message_parse(buf).kind = "Document"
    THEN [result |-> "Some", content |-> Message_parse(buf).content,
          buffer |-> SubSeq(buf, Message_parse(buf).byte_len + 1, Len(buf))]
    ELSE [result |-> "Err", content |-> <<>>, buffer |-> buf]

\* what a peer sends: queries, one of them nested and one with a character of
\* two bytes, a scalar ended by a line feed, type definitions, a definition
\* that is not closed, and a query with a byte that is no UTF-8
MessagePieces ==
    { <<"{", "a", "}">>, <<"{", "a", "{", "b", "}", "}">>, <<"{", "0xC3", "0xA9", "}">>,
      <<"s", "\n">>, <<"t", "{", "a", "}">>, <<"t", "{", "a", "}", "\n">>,
      <<"t", "{">>, <<"{", "0xA9", "}">> }

Streams == Concats(MessagePieces, MaxMessages)

InitConn ==
    /\ raw = <<>>
    /\ lexer = Lexer_new
    /\ peeked = <<>>
    /\ aborted = FALSE
    /\ yielded = <<>>
    /\ started = <<>>
    /\ pc = "idle"
    /\ result = NoResult
    /\ calls = <<>>
    /\ extension = NoNode
    /\ original = <<>>
    /\ verdict = NoVerdict
    /\ connections = <<Connection_new(<<>>)>>
    /\ command = <<>>
    /\ tasks = {}
    /\ socket \in {[pending |-> stream, stream |-> stream, closed |-> FALSE] : stream \in Streams}
    /\ buffer = <<>>

\* handle_connection calls read_message, which starts with parse_message: an
\* error breaks the loop of the handler; a content goes to the database actor
\* as in Forward, but an empty content is Ok(None), which takes the handler
\* to its arm for a message not read; without a message read_message goes on
\* to read_buf
ReadMessage ==
    /\ connections[1].at = "read_message"
    /\ LET message == parse_message(buffer)
       IN  /\ buffer' = message.buffer
           /\ connections' = [connections EXCEPT ![1] =
                  CASE message.result = "Err" -> [@ EXCEPT !.at = "returned"]
                    [] message.result = "None" -> [@ EXCEPT !.at = "read_buf"]
                    [] message.result = "Some" /\ message.content = <<>> ->
                           [@ EXCEPT !.at = "not_read"]
                    [] OTHER -> [@ EXCEPT !.forwarded = Append(@, message.content),
                                          !.receive_one = [state |-> "open", value |-> <<>>],
                                          !.at = "receive_one"]]
           /\ command' = IF message.result = "Some" /\ message.content # <<>>
                         THEN Append(command, [gql_str |-> message.content, response |-> 1])
                         ELSE command
    /\ UNCHANGED <<raw, lexer, peeked, aborted, yielded, started, pc, result, calls,
                   extension, original, verdict, tasks, socket>>

\* read_message: read_buf gives the n bytes that have arrived, or 0 once the
\* peer has closed; 0 with an empty buffer is Ok(None), which takes the
\* handler to its arm for a message not read, and 0 with bytes left is Err,
\* which ends it
ReadBuf(n) ==
    /\ connections[1].at = "read_buf"
    /\ IF n = 0
       THEN /\ socket.pending = <<>>
            /\ socket.closed
            /\ UNCHANGED <<socket, buffer>>
            /\ connections' = [connections EXCEPT ![1].at =
                   IF buffer = <<>> THEN "not_read" ELSE "returned"]
       ELSE /\ n <= Len(socket.pending)
            /\ buffer' = buffer \o SubSeq(socket.pending, 1, n)
            /\ socket' = [socket EXCEPT !.pending = SubSeq(@, n + 1, Len(@))]
            /\ connections' = [connections EXCEPT ![1].at = "read_message"]
    /\ UNCHANGED <<raw, lexer, peeked, aborted, yielded, started, pc, result, calls,
                   extension, original, verdict, command, tasks>>

\* handle_connection: Ok(None) is logged as a message not read and the loop
\* calls read_message again
MessageNotRead ==
    /\ connections[1].at = "not_read"
    /\ connections' = [connections EXCEPT ![1].at = "read_message"]
    /\ UNCHANGED <<raw, lexer, peeked, aborted, yielded, started, pc, result, calls,
                   extension, original, verdict, command, tasks, socket, buffer>>

\* the peer closes its side once it has sent its bytes
Shutdown ==
    /\ ~socket.closed
    /\ socket' = [socket EXCEPT !.closed = TRUE]
    /\ UNCHANGED <<raw, lexer, peeked, aborted, yielded, started, pc, result, calls,
                   extension, original, verdict, connections, command, tasks, buffer>>

MaxStream == 12     \* bytes in the longest stream

NextConn ==
    \/ ReadMessage
    \/ \E n \in 0..MaxStream : ReadBuf(n)
    \/ MessageNotRead
    \/ Shutdown
    \/ Respond(1)
    \/ Database_run
    \/ TaskParse(1)
    \/ TaskSend(1)
    \/ Parse

SpecConn == InitConn /\ [][NextConn]_vars

\* the handler and the database actor are tasks of the tokio runtime, which
\* polls each task that can go on; the peer is free to stay
SpecConnLive ==
    /\ SpecConn
    /\ WF_vars(ReadMessage)
    /\ WF_vars(\E n \in 0..MaxStream : ReadBuf(n))
    /\ WF_vars(MessageNotRead)
    /\ WF_vars(Respond(1))
    /\ WF_vars(Database_run)
    /\ WF_vars(TaskParse(1))
    /\ WF_vars(TaskSend(1))
    /\ WF_pc(Returns)

-----------------------------------------------------------------------------
(* Properties of parse *)

Parsed == Len(calls) >= 1

\* the items a fresh Lexer over raw yields, up to its end
RECURSIVE Items(_)
Items(lx) ==
    LET st == Lexer_next(lx)
    IN  IF st.item.tag \in {"None", "Panic"} THEN <<>> ELSE <<st.item>> \o Items(st.lexer)

\* C1: whatever the text, a call of parse returns Ok(Document) or
\* Err(ParseError); it never panics.
C1_ParseNeverPanics == Parsed => result.outcome \in {"Ok", "Err"}

\* a text of blanks, tabs, commas, line feeds and comments only
OnlyInsignificant(text) == SkipIgnored(text, 0) = Len(text)

\* C2: a text without a significant token fails with DocumentEmpty, and a
\* Document that parse returns has at least one definition.
C2_EmptyDocument ==
    Parsed =>
        /\ OnlyInsignificant(raw) => result = ResultErr(DocumentEmpty)
        /\ result.outcome = "Ok" => Len(result.document.definitions) >= 1

C2_Witness ==
    /\ Parsed
    /\ \E i, j \in 1..Len(raw) : raw[i] = "," /\ raw[j] = "#"
    /\ OnlyInsignificant(raw)
    /\ result = ResultErr(DocumentEmpty)

NameTokenLocation == Items(Lexer_new)[3].loc

ObjectDefinitions(document) ==
    { document.definitions[i].of : i \in
        { k \in 1..Len(document.definitions) :
            document.definitions[k].of.node = "ObjectTypeDefinition" } }

Named(name) == [node |-> "Named", name |-> name]

\* the tokens a type node is written with
RECURSIVE TypeText(_)
TypeText(type) ==
    CASE type.node = "NonNull" -> TypeText(type.of) \o <<"!">>
      [] type.node = "List" -> <<"[">> \o TypeText(type.list_type) \o <<"]">>
      [] OTHER -> type.name

\* the type of the field of the object type that raw defines
ParsedFieldType == result.document.definitions[1].of.fields[1].field_type

\* C5: a `!` marks the type on its left: `[T!]!`, `[T]!`, `[T!]` and `T!`
\* parse to NonNull(List(NonNull(T))), NonNull(List(T)), List(NonNull(T)) and
\* NonNull(T); more generally the type node a field gets is written exactly
\* as the tokens it was parsed from.
C5_BangBinding ==
    (Parsed /\ raw \in FieldTexts) =>
        /\ result.outcome = "Ok" => raw = FieldText(TypeText(ParsedFieldType))
        /\ raw = FieldText(<<"[", "T", "!", "]", "!">>) =>
              /\ result.outcome = "Ok"
              /\ ParsedFieldType = NonNull(ListTypeNode_new(NonNull(Named(<<"T">>))))
        /\ raw = FieldText(<<"[", "T", "]", "!">>) =>
              /\ result.outcome = "Ok"
              /\ ParsedFieldType = NonNull(ListTypeNode_new(Named(<<"T">>)))
        /\ raw = FieldText(<<"[", "T", "!", "]">>) =>
              /\ result.outcome = "Ok"
              /\ ParsedFieldType = ListTypeNode_new(NonNull(Named(<<"T">>)))
        /\ raw = FieldText(<<"T", "!">>) =>
              /\ result.outcome = "Ok"
              /\ ParsedFieldType = NonNull(Named(<<"T">>))

C5_Witness ==
    /\ Parsed
    /\ raw = FieldText(<<"[", "T", "!", "]", "!">>)
    /\ result.outcome = "Ok"
    /\ ParsedFieldType.node = "NonNull"
    /\ ParsedFieldType.of.node = "List"
    /\ ParsedFieldType.of.list_type.node = "NonNull"

\* C7: an enum definition with a value named true, false or null fails with
\* BadValue.
C7_EnumKeywordValue ==
    (Parsed /\ \E values \in Concats(EnumValuePieces, MaxValues) :
                  /\ raw = EnumText(<<"E">>, values)
                  /\ \E piece \in EnumValuePieces \ {<<" ", "A">>} :
                        \E i \in 1..Len(values) :
                            i + Len(piece) - 1 <= Len(values)
                            /\ SubSeq(values, i, i + Len(piece) - 1) = piece)
        => result = ResultErr(BadValue)

-----------------------------------------------------------------------------
(* Properties of validation *)

FieldNames(fields) == { fields[i].name : i \in 1..Len(fields) }

\* the names that fields of the extension share with fields of the original
SharedNames ==
    FieldNames(extension_get_fields(extension)) \cap FieldNames(object_get_fields(original[1]))

\* C6: against a present original, validate_extension fails exactly when a
\* field of the extension has the name of a field of the original, whatever
\* their types, and the message then names every such field.
C6_ConflictByName ==
    (verdict.op = "validate_extension" /\ original # <<>>) =>
        /\ ~verdict.result.ok <=> SharedNames # {}
        /\ \A name \in SharedNames :
              \E i \in 2..Len(verdict.result.message) : verdict.result.message[i] = name

-----------------------------------------------------------------------------
(* Properties of the Lexer *)

\* the tokens that carry a Location
Located(item) == item.tag = "Ok" /\ item.kind \notin {"Start", "End"}

\* the line feeds among the first n characters of text
LineFeeds(text, n) == { k \in 1..n : text[k] = "\n" }

\* C8: the line of a token is 1 plus the number of line feeds before its
\* first character.
C8_LineOfToken ==
    \A i \in 1..Len(yielded) :
        Located(yielded[i]) =>
            yielded[i].loc.line = 1 + Cardinality(LineFeeds(raw, started[i]))

\* C9: the column of a token is 1 plus the number of characters between the
\* last line feed before it, or the start of the text, and its first character.
C9_ColumnOfToken ==
    \A i \in 1..Len(yielded) :
        Located(yielded[i]) =>
            LET feeds == LineFeeds(raw, started[i])
                line_start == IF feeds = {} THEN 0 ELSE CHOOSE k \in feeds : \A m \in feeds : m <= k
            IN  yielded[i].loc.column = 1 + started[i] - line_start

Failed(items) == \E i \in 1..Len(items) : items[i].tag \in {"Err", "Panic"}

\* C10: Start is the first item and only the first; without a lexical error
\* the items end with one End, and every call after End gives None.
C10_StartEndNone ==
    /\ \A i \in 1..Len(yielded) : yielded[i] = TokStart <=> i = 1
    /\ \A i \in 1..Len(yielded) :
          yielded[i] = TokEnd => \A j \in (i + 1)..Len(yielded) : yielded[j] = None
    /\ \A i \in 1..Len(yielded) :
          (yielded[i] = None /\ ~Failed(yielded)) => \E j \in 1..(i - 1) : yielded[j] = TokEnd

C10_Witness ==
    /\ Len(yielded) = 5
    /\ yielded[1] = TokStart
    /\ yielded[2].kind = "Name"
    /\ yielded[3] = TokEnd
    /\ yielded[4] = None
    /\ yielded[5] = None

\* C11: once next() has returned an error, every later call returns None.
C11_ErrorIsTerminal ==
    \A i \in 1..Len(yielded) :
        yielded[i].tag = "Err" => \A j \in (i + 1)..Len(yielded) : yielded[j] = None

C11_Witness ==
    /\ Len(yielded) = 5
    /\ yielded[2].tag = "Ok"
    /\ yielded[3].tag = "Err"
    /\ yielded[4] = None
    /\ yielded[5] = None

\* the character index of the start of the line that character index n is on
LineStart(text, n) ==
    IF LineFeeds(text, n) = {} THEN 0
    ELSE CHOOSE k \in LineFeeds(text, n) : \A m \in LineFeeds(text, n) : m <= k

\* the Location of the character of raw at character index n
TrueLocation(n) ==
    Location(ByteIndex(raw, n), 1 + Cardinality(LineFeeds(raw, n)),
             1 + n - LineStart(raw, n))

\* the call that gave yielded[i] began lexing a token
Lexing(i) ==
    i > 1 /\ \A j \in 1..(i - 1) : yielded[j].tag = "Ok" /\ yielded[j] # TokEnd

\* a quote, or three, at character index n and no quote after it
OpensUnclosed(text, n) ==
    /\ n < Len(text)
    /\ text[n + 1] = Quote
    /\ LET width == IF n + 3 <= Len(text) /\ text[n + 2] = Quote /\ text[n + 3] = Quote
                    THEN 3 ELSE 1
       IN  \A k \in (n + width + 1)..Len(text) : text[k] # Quote

\* C12: a string without its closing delimiter fails with UnmatchedQuote, at
\* the absolute position and line of the opening quote and the column after
\* it; (0, 1, 2) when the string opens the text.
C12_UnmatchedQuoteLocation ==
    \A i \in 1..Len(yielded) :
        /\ (Lexing(i) /\ OpensUnclosed(raw, started[i])) =>
              /\ yielded[i].tag = "Err"
              /\ yielded[i].kind = "UnmatchedQuote"
        /\ (yielded[i].tag = "Err" /\ yielded[i].kind = "UnmatchedQuote") =>
              /\ raw[started[i] + 1] = Quote
              /\ yielded[i].loc.absolute_position = TrueLocation(started[i]).absolute_position
              /\ yielded[i].loc.line = TrueLocation(started[i]).line
              /\ yielded[i].loc.column = TrueLocation(started[i]).column + 1
              /\ started[i] = 0 => yielded[i].loc = Location(0, 1, 2)

-----------------------------------------------------------------------------
(* Properties of parse, continued *)

\* the character index of the first c in text
FirstIndex(text, c) ==
    CHOOSE n \in 0..(Len(text) - 1) :
        text[n + 1] = c /\ \A k \in 1..n : text[k] # c

\* C13: a failed parse reports the first problem in source order: a token
\* that is not a Name where the name of an argument, of an input value or of
\* a variable, or the key of an object value belongs, is reported at that
\* token and not at a later one.
C13_FirstProblemFirst ==
    (Parsed /\ raw \in NameSlotTexts) =>
        /\ result.outcome = "Err"
        /\ result.error.location = TrueLocation(FirstIndex(raw, "1"))

\* C14: parse terminates on every text: the call ends, with Ok or with Err.
C14_ParseTerminates == <>(pc = "done" /\ result.outcome \in {"Ok", "Err"})

\* the pieces a generated document was written from
Written == [text \in DefinitionTexts |->
               CHOOSE pieces \in DefinitionSeqs : DocumentText(pieces) = text]

-----------------------------------------------------------------------------
(* Properties of validation, continued *)

\* C16: validate() is Ok exactly when at least one of directives, interfaces
\* and fields is present (a present empty list of fields counts), it fails
\* with a ValidationError when all three are absent, and it leaves the node
\* as it was.
C16_ValidateNeedsOne ==
    /\ [](verdict.op = "validate" =>
             /\ verdict.result.ok <=>
                    (extension.directives # <<>> \/ extension.interfaces # <<>>
                        \/ extension.fields # <<>>)
             /\ ~verdict.result.ok => verdict.result.message # <<>>)
    /\ [][Validate => extension' = extension]_vars

C16_Witness ==
    /\ verdict.op = "validate"
    /\ extension.directives = <<>>
    /\ extension.interfaces = <<>>
    /\ extension.fields = << <<>> >>
    /\ verdict.result.ok

-----------------------------------------------------------------------------
(* Properties of parse: operations and extensions *)

W_query == Keyword.query \o <<" ">>
W_selections == <<"{", "a", "}">>
W_variables == <<"(", "$", "v", ":", "T", ")", " ">>

\* the query that raw defines
ParsedQuery == result.document.definitions[1].of

IsQuery == /\ result.outcome = "Ok"
           /\ Len(result.document.definitions) = 1
           /\ ParsedQuery.node = "QueryDefinition"

\* C17: the name of an operation is optional after `query`: `query {a}` and
\* `query ($v:T) {a}` parse to a query without a name, `query q {a}` to a query
\* named q, and a bare `{a}` to a query without a name and without variables.
C17_OptionalOperationName ==
    Parsed =>
        /\ raw = W_query \o W_selections => IsQuery /\ ParsedQuery.name = <<>>
        /\ raw = W_query \o W_variables \o W_selections =>
              IsQuery /\ ParsedQuery.name = <<>> /\ Len(ParsedQuery.variables) = 1
        /\ raw = W_query \o <<"q", " ">> \o W_selections =>
              IsQuery /\ ParsedQuery.name = << <<"q">> >>
        /\ raw = W_selections =>
              IsQuery /\ ParsedQuery.name = <<>> /\ ParsedQuery.variables = <<>>

\* C18: the block of fields of `extend type A [implements ..] [@directives]`
\* is optional: without it the extension has no fields, with `{}` it has an
\* empty list of fields, and parse succeeds either way, also when another
\* definition follows.
C18_OptionalFieldBlock ==
    Parsed =>
        \A case \in ExtensionCases :
            raw = ExtensionText(case) =>
                /\ result.outcome = "Ok"
                /\ Len(result.document.definitions) = IF case.follows = <<>> THEN 1 ELSE 2
                /\ result.document.definitions[1].of.node = "ObjectTypeExtension"
                /\ result.document.definitions[1].of.fields =
                       IF case.block = <<>> THEN <<>> ELSE << <<>> >>

-----------------------------------------------------------------------------
(* Properties of the Lexer, continued *)

\* C20: the absolute positions of the located tokens never go down along
\* the tokens that the Lexer yields, a token after a block string included.
C20_PositionsNeverGoDown ==
    \A i, j \in 1..Len(yielded) :
        (i < j /\ Located(yielded[i]) /\ Located(yielded[j])) =>
            yielded[i].loc.absolute_position <= yielded[j].loc.absolute_position

-----------------------------------------------------------------------------
(* Properties of the server *)

\* C19: a request that a connection forwarded gets exactly one response, on
\* that connection, and the response is the text of the result of parse on the
\* request: the Document, or the message of the ParseError.
C19_OneRenderedResponse ==
    \A c \in DOMAIN connections :
        connections[c].at \in {"read_message", "closed"} =>
            /\ Len(connections[c].written) = Len(connections[c].forwarded)
            /\ \A i \in 1..Len(connections[c].forwarded) :
                  \E k \in 1..Len(calls) :
                      /\ calls[k].text = connections[c].forwarded[i]
                      /\ calls[k].result.outcome \in {"Ok", "Err"}
                      /\ connections[c].written[i] = handle_database_request(calls[k].result)

-----------------------------------------------------------------------------
(* Properties of the Lexer: which token starts where *)

\* the numeric literal written at character p of text: its kind and value
LiteralAt(text, p) ==
    IF FloatEndAt(text, p) # -1
    THEN [kind |-> "Float", value |-> parse_f64(SubSeq(text, p + 1, FloatEndAt(text, p)))]
    ELSE [kind |-> "Int", value |-> parse_i64(SubSeq(text, p + 1, IntEndAt(text, p)))]

\* C21: when the next significant character is a digit or `-` with digits
\* behind it, the token yielded is the numeric literal that begins at that
\* character: Float if -?digits.digits is written there, Int otherwise.
C21_NumberAtItsPlace ==
    \A i \in 2..Len(yielded) :
        IntEndAt(raw, started[i]) # -1 =>
            /\ yielded[i].tag = "Ok"
            /\ yielded[i].kind = LiteralAt(raw, started[i]).kind
            /\ yielded[i].value = LiteralAt(raw, started[i]).value

\* C22: at a quote, the token is a block string exactly when three quotes are
\* written there; otherwise it is the Str that ends at the next unescaped
\* quote, whatever is written later in the text.
C22_StringModeAtItsPlace ==
    \A i \in 2..Len(yielded) :
        At(raw, started[i]) = Quote =>
            /\ yielded[i].kind = "BlockStr" => TripleQuoteAt(raw, started[i])
            /\ BlockEndAt(raw, started[i]) # -1 =>
                  /\ yielded[i].kind = "BlockStr"
                  /\ yielded[i].value =
                        SubSeq(raw, started[i] + 4, BlockEndAt(raw, started[i]) - 3)
            /\ (~TripleQuoteAt(raw, started[i]) /\ SingleEndAt(raw, started[i]) # -1) =>
                  /\ yielded[i].kind = "Str"
                  /\ yielded[i].value =
                        SubSeq(raw, started[i] + 2, SingleEndAt(raw, started[i]) - 1)

\* where the line that opens text ends: the character index behind its line
\* feed, or the length of the text when it has a single line
AfterFirstLine(text) ==
    LET feeds == {q \in 1..Len(text) : text[q] = "\n"}
    IN  IF feeds = {} THEN Len(text) ELSE Min(feeds)

\* C23: a comment ends with its line and yields no token, so the tokens of
\* the lines after it are yielded as if the comment were not there: when a
\* text opens with a comment, the token that follows the comment's line is
\* yielded before End.
C23_TokensAfterComment ==
    (/\ raw # <<>>
     /\ raw[1] = "#"
     /\ SkipIgnored(raw, AfterFirstLine(raw)) < Len(raw)
     /\ \E i \in 1..Len(yielded) : yielded[i] = TokEnd)
        => \E j \in 1..Len(yielded) :
              /\ Located(yielded[j])
              /\ started[j] = SkipIgnored(raw, AfterFirstLine(raw))

ThreeDotsAt(text, p) == \A d \in 0..2 : At(text, p + d) = "."

\* C24: at a `.`, the token is Spread exactly when three `.` in a row are
\* written there; a `.` that does not open three in a row gives
\* LexError::UnexpectedCharacter.
C24_SpreadIsThreeDots ==
    \A i \in 2..Len(yielded) :
        At(raw, started[i]) = "." =>
            IF ThreeDotsAt(raw, started[i])
            THEN yielded[i].tag = "Ok" /\ yielded[i].kind = "Spread"
            ELSE yielded[i].tag = "Err" /\ yielded[i].kind = "UnexpectedCharacter"


-----------------------------------------------------------------------------
(* Properties of parse: lists of arguments, enums and field types *)

\* where the Lexer says the first ")" of raw is
CloseParenLocation ==
    LET items == Items(Lexer_new)
        first == CHOOSE i \in 1..Len(items) :
                     /\ items[i].kind = "CloseParen"
                     /\ \A j \in 1..(i - 1) : items[j].kind # "CloseParen"
    IN  items[first].loc

NamesOf(list) == [i \in 1..Len(list) |-> list[i].name]

ParsedField == ParsedQuery.selections[1].of
ParsedFieldDefinition == result.document.definitions[1].of.fields[1]

\* the Option a list of arguments is parsed into, by the names it holds
ArgumentsParsed(arguments) ==
    IF arguments = <<>> THEN <<>> ELSE << <<<<"x">>, <<"y">>>> >>

\* C25: a list of arguments, or of argument definitions, that is opened and
\* closed at once ("f()", "@d()", "name(): Type") fails the parse with
\* ArgumentEmpty at the location of the ")" token; where the list is absent
\* the node's arguments are None, and where it holds arguments they are
\* Some list in the order of the source.
C25_ArgumentLists ==
    (Parsed /\ raw \in ArgumentTexts) =>
        IF \E i \in 1..(Len(raw) - 1) : raw[i] = "(" /\ raw[i + 1] = ")"
        THEN result = ResultErr(ArgumentEmpty(CloseParenLocation))
        ELSE /\ result.outcome = "Ok"
             /\ \A arguments \in ArgumentLists :
                   /\ raw = FieldWith(arguments) =>
                         /\ (ParsedField.arguments = <<>>) = (arguments = <<>>)
                         /\ [i \in 1..Len(ParsedField.arguments) |->
                                NamesOf(ParsedField.arguments[i])]
                                = ArgumentsParsed(arguments)
                   /\ raw = DirectiveWith(arguments) =>
                         /\ ParsedField.arguments = <<>>
                         /\ [i \in 1..Len(ParsedField.directives[1][1].arguments) |->
                                NamesOf(ParsedField.directives[1][1].arguments[i])]
                                = ArgumentsParsed(arguments)
             /\ \A arguments \in ArgumentDefinitionLists :
                   raw = FieldDefinitionWith(arguments) =>
                       [i \in 1..Len(ParsedFieldDefinition.arguments) |->
                           NamesOf(ParsedFieldDefinition.arguments[i])]
                           = ArgumentsParsed(arguments)

C25_Witness ==
    /\ Parsed
    /\ raw = DirectiveWith(<<"(", ")">>)
    /\ result.outcome = "Err"
    /\ result.error.error = "ArgumentEmpty"
    /\ result.error.location.absolute_position = 6


\* C26: parse never returns a document holding an enum definition without
\* values; "enum E {}" fails the parse.
C26_EnumHasValues ==
    (Parsed /\ result.outcome = "Ok") =>
        \A i \in 1..Len(result.document.definitions) :
            result.document.definitions[i].of.node = "EnumTypeDefinition" =>
                result.document.definitions[i].of.values # <<>>


\* C27: a field type written with two non-null markers, "T!!", is not
\* rejected by parse and is the type T wrapped in NonNull twice.
C27_RepeatedNonNull ==
    (Parsed /\ raw = FieldText(<<"T", "!", "!">>)) =>
        /\ result.outcome = "Ok"
        /\ ParsedFieldType = NonNull(NonNull(Named(<<"T">>)))


-----------------------------------------------------------------------------
(* Properties of the server: framing, progress and the end of a connection *)

\* the brace depth after the first i bytes of cursor
Depth(cursor, i) ==
    Cardinality({j \in 1..i : cursor[j] = "{"}) - Cardinality({j \in 1..i : cursor[j] = "}"})

\* the closing braces of cursor that return the depth to zero
Closes(cursor) == {i \in 1..Len(cursor) : cursor[i] = "}" /\ Depth(cursor, i) = 0}

\* where the message at the front of cursor ends: at the first such brace of
\* a buffer that starts with "{", at the last one of any other buffer
FrameEnd(cursor) ==
    IF Closes(cursor) = {} THEN 0
    ELSE IF cursor[1] = "{" THEN Min(Closes(cursor))
    ELSE CHOOSE i \in Closes(cursor) : \A j \in Closes(cursor) : j <= i

Frame(cursor) == SubSeq(cursor, 1, FrameEnd(cursor))

\* read_message has taken the frame of the buffer: its bytes are gone from the
\* front of the buffer and nothing else is, and its characters were forwarded
FrameTaken ==
    /\ buffer' = SubSeq(buffer, FrameEnd(buffer) + 1, Len(buffer))
    /\ connections'[1].forwarded =
           IF FrameEnd(buffer) = 0 THEN connections[1].forwarded
           ELSE Append(connections[1].forwarded, Utf8Chars(Frame(buffer)))

\* C28 as the spec states it: on every ready buffer Message::parse returns
\* the frame as content and its length in bytes as byte_len, and
\* parse_message removes exactly these bytes.
C28_FrameOfReadyBuffer ==
    [][(ReadMessage /\ Message_ready(buffer)) => FrameTaken]_vars

\* C28: on a ready buffer whose frame is valid UTF-8, Message::parse returns
\* the frame as content and its length in bytes as byte_len, and parse_message
\* removes exactly these bytes, so that the bytes of a definition that is not
\* closed stay in the buffer; a frame that is no UTF-8 is an error, which
\* removes nothing and ends the handler.
C28_FrameOfValidBuffer ==
    [][(ReadMessage /\ Message_ready(buffer)) =>
          IF Utf8Valid(Frame(buffer)) THEN FrameTaken
          ELSE /\ buffer' = buffer
               /\ connections'[1].forwarded = connections[1].forwarded
               /\ connections'[1].at = "returned"]_vars

C28_Witness ==
    /\ connections # <<>>
    /\ connections[1].forwarded = << <<"{", "U+00E9", "}">> >>
    /\ connections[1].at = "receive_one"
    /\ buffer = <<"t", "{">>


\* the streams made of complete messages only
CompletePieces ==
    { <<"{", "a", "}">>, <<"{", "a", "{", "b", "}", "}">>, <<"{", "0xC3", "0xA9", "}">>,
      <<"s", "\n">>, <<"t", "{", "a", "}">>, <<"t", "{", "a", "}", "\n">> }

CompleteStreams == Concats(CompletePieces, MaxMessages)

\* a text without the line feeds that end or separate its messages
Stripped(text) == SelectSeq(text, LAMBDA c : c # "\n")

RECURSIVE Joined(_)
Joined(texts) == IF texts = <<>> THEN <<>> ELSE Head(texts) \o Joined(Tail(texts))

\* every message of the stream has gone to the database actor and each
\* forwarded content has had its response written
AllAnswered ==
    /\ Stripped(Joined(connections[1].forwarded)) = Utf8Chars(Stripped(socket.stream))
    /\ Len(connections[1].written) = Len(connections[1].forwarded)

\* C29: when the peer sends complete messages, with or without braces, each
\* of them is eventually forwarded to the database actor and answered: the
\* handler does not stay forever with bytes it neither consumes nor adds to.
C29_EveryMessageAnswered ==
    socket.stream \in CompleteStreams => <>AllAnswered


\* the peer has closed and read_buf has given 0 bytes into an empty buffer:
\* read_message has returned Ok(None)
CleanClose ==
    /\ connections[1].at = "not_read"
    /\ socket.closed
    /\ socket.pending = <<>>
    /\ buffer = <<>>

\* C30: once the peer has closed the connection cleanly, handle_connection
\* eventually returns.
C30_ClosedConnectionReturns == CleanClose ~> connections[1].at = "returned"

====
